---- MODULE Spec2Model ----
(***************************************************************************)
(* State-machine model of the streaming analysis pipeline of vocal-prime:  *)
(*   - StreamingFormantDetector   (formants/streaming_formant.py)          *)
(*   - HybridPitchDetector and its two backends (pitch/streaming_pitch.py) *)
(*   - StreamingSeparator         (separation/streaming_separator.py)      *)
(*   - AnalysisServer, the streaming handlers and the message loop        *)
(*     (__main__.py)                                                       *)
(* Every object is one record variable whose fields carry the names of the *)
(* attributes of the Python object.  The *_obs variables are observation   *)
(* (history) variables: they record what a call returned and which         *)
(* backends it invoked, and are never read by the modelled code.           *)
(*                                                                         *)
(* Audio samples are pairs <<k, a>>: k is the position of the sample in    *)
(* the stream pushed since construction/reset (1-based, 0 for the zero     *)
(* fill), a is its amplitude (0 silent, 1 loud).  The code only moves      *)
(* samples around, so position labels make every reordering, loss or       *)
(* duplication visible.                                                    *)
(*                                                                         *)
(* Real-valued quantities are fixed-point integers: frequencies and        *)
(* bandwidths in Hz (products floor-divided), confidences in tenths.       *)
(***************************************************************************)
EXTENDS Integers, Sequences, FiniteSets, TLC

VARIABLES fd, fd_obs, hp, hp_obs, ss, ss_obs, srv, srv_obs, loop, steps

vars == <<fd, fd_obs, hp, hp_obs, ss, ss_obs, srv, srv_obs, loop, steps>>

(***************************************************************************)
(* Bounds of the model.                                                    *)
(***************************************************************************)
\* number of handler calls explored in one behaviour
MaxSteps == 3
\* formant detector: window_samples ranges over 1..MaxWindow, and
\* hop_samples over 0..window_samples + 1
MaxWindow == 2

(***************************************************************************)
(* Python / numpy primitives.                                              *)
(***************************************************************************)
Min(a, b) == IF a <= b THEN a ELSE b

Max(a, b) == IF a >= b THEN a ELSE b

\* s[i:j] for 0 <= i, 0 <= j (0-based, end exclusive, clamped to len(s))
PySlice(s, i, j) ==
    LET lo == Min(i, Len(s))
        hi == Min(j, Len(s))
    IN  IF hi <= lo THEN <<>> ELSE SubSeq(s, lo + 1, hi)

\* s[i:] for 0 <= i
PyFrom(s, i) == PySlice(s, i, Len(s))

\* s[-k:] for k >= 0.  -0 is 0, so s[-0:] is the whole of s.
PyLast(s, k) ==
    IF k = 0 THEN s
    ELSE IF k >= Len(s) THEN s
    ELSE SubSeq(s, Len(s) - k + 1, Len(s))

\* numpy:  s[i:i+Len(v)] = v   (the slice lies inside s)
PyAssign(s, i, v) ==
    SubSeq(s, 1, i) \o v \o SubSeq(s, i + Len(v) + 1, Len(s))

\* np.zeros(n)
Zero == <<0, 0>>

Zeros(n) == [x \in 1..n |-> Zero]

\* a deque that drops its oldest element one append too late
DequeAppendLate(d, x, m) ==
    IF Len(d) > m THEN Tail(d) \o <<x>> ELSE d \o <<x>>

\* collections.deque(maxlen=m).append(x)
DequeAppend(d, x, m) ==
    IF m = 0 THEN <<>>
    ELSE IF Len(d) >= m THEN PyFrom(d, Len(d) - m + 1) \o <<x>>
    ELSE Append(d, x)

\* the chunk of n samples that follows `total` samples already pushed
Chunk(total, n, amp) == [i \in 1..n |-> <<total + i, amp>>]

(***************************************************************************)
(* StreamingFormantDetector                                                *)
(***************************************************************************)
FormantKeys == 1..4

\* self.smoothing = 0.7, as tenths
SmoothingTenths == 7

\* the decay factor 0.9 of the unvoiced path, as tenths
DecayTenths == 9

\* deque(maxlen=3)
VoicedHistoryLen == 3

\* StreamingFormantDetector.__init__
FormantDetector(window_samples, hop_samples) ==
    [ window_samples         |-> window_samples,
      hop_samples            |-> hop_samples,
      buffer_size            |-> window_samples * 3,
      audio_buffer           |-> Zeros(window_samples * 3),
      buffer_pos             |-> 0,
      samples_since_analysis |-> 0,
      smoothed_formants      |-> [k \in FormantKeys |-> 0],
      smoothed_bandwidths    |-> [k \in FormantKeys |-> 0],
      voiced_history         |-> <<>> ]

\* StoreShifted shifting by the chunk length instead of the overflow
StoreShiftedByChunk(self, audio) ==
    LET n     == Len(audio)
        shift == Min(n, self.buffer_pos)
        moved == IF self.buffer_pos + n > self.buffer_size
                 THEN [self EXCEPT
                         !.audio_buffer =
                             PyAssign(self.audio_buffer, 0,
                                      PyFrom(self.audio_buffer, shift)),
                         !.buffer_pos = self.buffer_pos - shift]
                 ELSE self
    IN  [moved EXCEPT
           !.audio_buffer = PyAssign(moved.audio_buffer, moved.buffer_pos, audio),
           !.buffer_pos   = moved.buffer_pos + n]

\* process_chunk, lines 119-137: store the chunk and count its samples
StoreShifted(self, audio) ==
    LET n     == Len(audio)
        shift == self.buffer_pos + n - self.buffer_size
        moved == IF self.buffer_pos + n > self.buffer_size
                 THEN [self EXCEPT
                         !.audio_buffer =
                             PyAssign(self.audio_buffer, 0,
                                      PyFrom(self.audio_buffer, shift)),
                         !.buffer_pos = self.buffer_pos - shift]
                 ELSE self
    IN  [moved EXCEPT
           !.audio_buffer = PyAssign(moved.audio_buffer, moved.buffer_pos, audio),
           !.buffer_pos   = moved.buffer_pos + n]

\* StoreChunk forgetting to count the samples of the chunk
StoreChunkUncounted(self, audio) ==
    IF Len(audio) >= self.buffer_size
    THEN [self EXCEPT
            !.audio_buffer = PyLast(audio, self.buffer_size),
            !.buffer_pos   = self.buffer_size]
    ELSE StoreShifted(self, audio)

\* StoreChunk keeping the whole of an oversized chunk
StoreChunkUntrimmed(self, audio) ==
    LET n      == Len(audio)
        stored == IF n >= self.buffer_size
                  THEN [self EXCEPT
                          !.audio_buffer = audio,
                          !.buffer_pos   = self.buffer_size]
                  ELSE StoreShifted(self, audio)
    IN  [stored EXCEPT
           !.samples_since_analysis = self.samples_since_analysis + n]

StoreChunk(self, audio) ==
    LET n      == Len(audio)
        stored == IF n >= self.buffer_size
                  THEN [self EXCEPT
                          !.audio_buffer = PyLast(audio, self.buffer_size),
                          !.buffer_pos   = self.buffer_size]
                  ELSE StoreShifted(self, audio)
    IN  [stored EXCEPT
           !.samples_since_analysis = self.samples_since_analysis + n]

\* WindowDue with the hop test strict (an off-by-one in line 143)
WindowDueStrictHop(self) ==
    /\ ~(self.buffer_pos < self.window_samples)
    /\ ~(self.samples_since_analysis <= self.hop_samples)

\* process_chunk, lines 140-144: is a window due now?
WindowDue(self) ==
    /\ ~(self.buffer_pos < self.window_samples)
    /\ ~(self.samples_since_analysis < self.hop_samples)

\* AnalysisWindow taken from the start of the buffer
AnalysisWindowFromStart(self) == PySlice(self.audio_buffer, 0, self.window_samples)

\* process_chunk, line 150
AnalysisWindow(self) ==
    PySlice(self.audio_buffer, self.buffer_pos - self.window_samples,
            self.buffer_pos)

\* process_chunk, lines 153-154.  With amplitudes 0/1 the rms of a window of
\* fewer than 10^8 samples exceeds energy_threshold = 0.0001 exactly when
\* one of its samples is loud.
IsVoicedFrame(window) == \E i \in 1..Len(window) : window[i][2] = 1

\* a gate that asks for a majority of the flags held
VoiceDetectedMajority(history) ==
    2 * Cardinality({i \in 1..Len(history) : history[i]}) > Len(history)

\* sum(self.voiced_history) >= 1
VoiceDetected(history) == \E i \in 1..Len(history) : history[i]

\* a decay that rounds to the nearest integer instead of truncating
DecayRounded(x) == (x * DecayTenths + 5) \div 10

\* x *= 0.9
Decay(x) == (x * DecayTenths) \div 10

\* a smoother with the two weights exchanged
SmoothSwapped(old, raw) ==
    ((10 - SmoothingTenths) * old + SmoothingTenths * raw) \div 10

\* smoothing * old + (1 - smoothing) * raw
Smooth(old, raw) ==
    (SmoothingTenths * old + (10 - SmoothingTenths) * raw) \div 10

\* a validation that only asks for F1..F3 to have been found
ValidateFormantsFound(f) == f[1] > 0 /\ f[2] > 0 /\ f[3] > 0

\* _validate_formants
ValidateFormants(f) ==
    /\ 0 < f[1] /\ f[1] < f[2] /\ f[2] < f[3]
    /\ 100 < f[1] /\ f[1] < 1200
    /\ 500 < f[2] /\ f[2] < 3000
    /\ 1500 < f[3] /\ f[3] < 4500
    /\ (f[4] > 0 => (2500 < f[4] /\ f[4] < 5500))

\* A value handed back by Praat: a number, or NaN.
Num(v) == [nan |-> FALSE, v |-> v]

NaN == [nan |-> TRUE, v |-> 0]

\* process_chunk, lines 202-214: the raw dictionaries built from the values
\* Praat returned (praat.f[i], praat.b[i])
RawFormants(praat) ==
    [i \in FormantKeys |->
        IF ~praat.f[i].nan /\ praat.f[i].v > 0 THEN praat.f[i].v ELSE 0]

RawBandwidths(praat) ==
    [i \in FormantKeys |->
        IF ~praat.f[i].nan /\ praat.f[i].v > 0
        THEN (IF ~praat.b[i].nan THEN praat.b[i].v ELSE 0)
        ELSE 0]

\* the dictionary process_chunk returns
FormantResult(F, B, detected, voiced) ==
    [none |-> FALSE, F |-> F, B |-> B, detected |-> detected, rms_over |-> voiced]

NoResult == [none |-> TRUE]

\* a decay path that leaves the bandwidths as they are
DecayPathFormantsOnly(self, is_voiced) ==
    LET next == [self EXCEPT
                   !.smoothed_formants =
                       [k \in FormantKeys |-> Decay(self.smoothed_formants[k])]]
    IN  [self    |-> next,
         result  |-> FormantResult(next.smoothed_formants,
                                   next.smoothed_bandwidths, FALSE, is_voiced),
         invoked |-> FALSE]

\* process_chunk, lines 160-178: no voice, decay every smoothed value
DecayPath(self, is_voiced) ==
    LET next == [self EXCEPT
                   !.smoothed_formants =
                       [k \in FormantKeys |-> Decay(self.smoothed_formants[k])],
                   !.smoothed_bandwidths =
                       [k \in FormantKeys |-> Decay(self.smoothed_bandwidths[k])]]
    IN  [self    |-> next,
         result  |-> FormantResult(next.smoothed_formants,
                                   next.smoothed_bandwidths, FALSE, is_voiced),
         invoked |-> FALSE]

\* process_chunk, lines 181-258: run the backend and smooth what it returned.
\* praat is the outcome of the Parselmouth calls: [raised |-> TRUE] or
\* [raised |-> FALSE, f |-> ..., b |-> ...].
AnalysisPath(self, is_voiced, praat) ==
    IF praat.raised
    THEN [self    |-> self,
          result  |-> FormantResult(self.smoothed_formants,
                                    [k \in FormantKeys |-> 0], FALSE, is_voiced),
          invoked |-> TRUE]
    ELSE
      LET rf    == RawFormants(praat)
          rb    == RawBandwidths(praat)
          valid == ValidateFormants(rf)
          next  == IF valid
                   THEN [self EXCEPT
                           !.smoothed_formants =
                               [k \in FormantKeys |->
                                   IF rf[k] > 0
                                   THEN Smooth(self.smoothed_formants[k], rf[k])
                                   ELSE self.smoothed_formants[k]],
                           !.smoothed_bandwidths =
                               [k \in FormantKeys |->
                                   IF rb[k] > 0
                                   THEN Smooth(self.smoothed_bandwidths[k], rb[k])
                                   ELSE self.smoothed_bandwidths[k]]]
                   ELSE self
      IN  [self    |-> next,
           result  |-> FormantResult(next.smoothed_formants,
                                     next.smoothed_bandwidths,
                                     valid /\ next.smoothed_formants[1] > 0,
                                     is_voiced),
           invoked |-> TRUE]

\* StartAnalysis leaving the hop counter running
StartAnalysisCounting(self) == self

\* process_chunk, line 147: the hop counter restarts when a window is taken
StartAnalysis(self) == [self EXCEPT !.samples_since_analysis = 0]

\* StreamingFormantDetector.process_chunk: the object after the call, the
\* value returned, the window analysed and whether the backend was invoked
FormantProcessChunk(self, audio, praat) ==
    LET stored == StoreChunk(self, audio)
    IN  IF ~WindowDue(stored)
        THEN [self |-> stored, result |-> NoResult, window |-> <<>>,
              invoked |-> FALSE]
        ELSE
          LET timed     == StartAnalysis(stored)
              window    == AnalysisWindow(timed)
              is_voiced == IsVoicedFrame(window)
              gated     == [timed EXCEPT
                              !.voiced_history =
                                  DequeAppend(timed.voiced_history, is_voiced,
                                              VoicedHistoryLen)]
              out       == IF ~VoiceDetected(gated.voiced_history)
                           THEN DecayPath(gated, is_voiced)
                           ELSE AnalysisPath(gated, is_voiced, praat)
          IN  [self |-> out.self, result |-> out.result, window |-> window,
               invoked |-> out.invoked]

\* StreamingFormantDetector.reset
FormantReset(self) ==
    [self EXCEPT
       !.audio_buffer           = Zeros(Len(self.audio_buffer)),
       !.buffer_pos             = 0,
       !.samples_since_analysis = 0,
       !.voiced_history         = <<>>,
       !.smoothed_formants      = [k \in FormantKeys |-> 0],
       !.smoothed_bandwidths    = [k \in FormantKeys |-> 0]]

(***************************************************************************)
(* Formant detector: observations, inputs, actions.                        *)
(***************************************************************************)
\* nothing observed yet: no sample pushed, no call made since the reset
FormantFresh ==
    [total |-> 0, lens |-> <<>>, emits |-> <<>>, called |-> FALSE,
     result |-> NoResult, window |-> <<>>, invoked |-> FALSE,
     before |-> FormantDetector(0, 0), n |-> 0, flags |-> <<>>]

\* outcomes of the Parselmouth calls used while the accumulator is explored
PraatTypical ==
    [raised |-> FALSE,
     f |-> <<Num(500), Num(1500), Num(2500), Num(3500)>>,
     b |-> <<Num(80), Num(90), Num(100), Num(110)>>]

PraatRaised == [raised |-> TRUE]

FDProcessChunk(n, amp, praat) ==
    /\ steps < MaxSteps
    /\ LET audio == Chunk(fd_obs.total, n, amp)
           r     == FormantProcessChunk(fd, audio, praat)
       IN  /\ fd' = r.self
           /\ fd_obs' = [total   |-> fd_obs.total + n,
                         lens    |-> Append(fd_obs.lens, n),
                         emits   |-> Append(fd_obs.emits, ~r.result.none),
                         called  |-> TRUE,
                         result  |-> r.result,
                         window  |-> r.window,
                         invoked |-> r.invoked,
                         before  |-> fd,
                         n       |-> n,
                         flags   |-> IF r.result.none THEN fd_obs.flags
                                     ELSE Append(fd_obs.flags,
                                                 IsVoicedFrame(r.window))]
    /\ steps' = steps + 1
    /\ UNCHANGED <<hp, hp_obs, ss, ss_obs, srv, srv_obs, loop>>

FDReset ==
    /\ steps < MaxSteps
    /\ fd' = FormantReset(fd)
    /\ fd_obs' = [FormantFresh EXCEPT !.before = fd]
    /\ steps' = steps + 1
    /\ UNCHANGED <<hp, hp_obs, ss, ss_obs, srv, srv_obs, loop>>

\* Praat returned four positive formants out of order
PraatMisordered ==
    [raised |-> FALSE,
     f |-> <<Num(1500), Num(500), Num(2500), Num(3500)>>,
     b |-> <<Num(80), Num(90), Num(100), Num(110)>>]

\* Praat found three formants; F4 and one bandwidth are undefined (NaN) and
\* one bandwidth is zero
PraatPartial ==
    [raised |-> FALSE,
     f |-> <<Num(600), Num(1600), Num(2600), NaN>>,
     b |-> <<Num(70), NaN, Num(0), Num(120)>>]

\* Praat found no formant at all
PraatUndefined ==
    [raised |-> FALSE, f |-> <<NaN, NaN, NaN, NaN>>, b |-> <<NaN, NaN, NaN, NaN>>]

\* outcomes of the Parselmouth calls used while the voice gate and the
\* smoother are explored
PraatOutcomes ==
    {PraatTypical, PraatRaised, PraatMisordered, PraatPartial, PraatUndefined}

\* one process_chunk call with a chunk of window_samples samples, all loud
\* (amp = 1) or all silent (amp = 0), allowed while fewer than `limit` steps
\* were taken; the observation also keeps what the backend returned when it
\* was invoked
FDEvaluate(amp, praat, limit) ==
    /\ steps < limit
    /\ LET n     == fd.window_samples
           audio == Chunk(fd_obs.total, n, amp)
           r     == FormantProcessChunk(fd, audio, praat)
       IN  /\ fd' = r.self
           /\ fd_obs' = [total   |-> fd_obs.total + n,
                         lens    |-> Append(fd_obs.lens, n),
                         emits   |-> Append(fd_obs.emits, ~r.result.none),
                         called  |-> TRUE,
                         result  |-> r.result,
                         window  |-> r.window,
                         invoked |-> r.invoked,
                         before  |-> fd,
                         n       |-> n,
                         praat   |-> IF r.invoked THEN praat ELSE PraatUndefined,
                         flags   |-> IF r.result.none THEN fd_obs.flags
                                     ELSE Append(fd_obs.flags, amp = 1)]
    /\ steps' = steps + 1
    /\ UNCHANGED <<hp, hp_obs, ss, ss_obs, srv, srv_obs, loop>>

(***************************************************************************)
(* AdaptiveFormantDetector: a StreamingFormantDetector whose ceiling       *)
(* max_formant_hz follows the median of the recent pitch observations.     *)
(* Pitches are whole Hz; a median is the exact rational                    *)
(* <<numerator, denominator>>.                                             *)
(***************************************************************************)
\* deque(maxlen=20)
PitchHistoryLen == 20

\* StreamingFormantDetector.__init__, line 40: default of max_formant_hz
DefaultMaxFormant == 5500

\* AdaptiveFormantDetector.__init__: the base detector (with the attribute
\* max_formant_hz that the controller drives) and the controller's own
\* attributes
AdaptiveDetector(window_samples, hop_samples) ==
    FormantDetector(window_samples, hop_samples) @@
    [ max_formant_hz     |-> DefaultMaxFormant,
      current_pitch      |-> <<0, 1>>,
      pitch_history      |-> <<>>,
      male_max_formant   |-> 5000,
      female_max_formant |-> 5500,
      child_max_formant  |-> 6000 ]

\* sorted(xs), by insertion
RECURSIVE Sorted(_)
Sorted(xs) ==
    IF xs = <<>> THEN <<>>
    ELSE LET rest == Sorted(Tail(xs))
             x    == Head(xs)
             k    == Cardinality({i \in 1..Len(rest) : rest[i] < x})
         IN  SubSeq(rest, 1, k) \o <<x>> \o SubSeq(rest, k + 1, Len(rest))

\* np.median of a non-empty list: the middle value, or the mean of the two
\* middle values
Median(xs) ==
    LET s == Sorted(xs)
        n == Len(s)
    IN  IF n % 2 = 1 THEN <<s[(n + 1) \div 2], 1>>
        ELSE <<s[n \div 2] + s[n \div 2 + 1], 2>>

\* q > k for a rational q and an integer k
Above(q, k) == q[1] > k * q[2]

\* the comparison of set_pitch: current_pitch > 250, > 165, else
CeilingFor(self, median) ==
    IF Above(median, 250) THEN self.child_max_formant
    ELSE IF Above(median, 165) THEN self.female_max_formant
    ELSE self.male_max_formant

\* a set_pitch that records every observation, whatever its sign
SetPitchUnchecked(self, pitch_hz) ==
    LET history == DequeAppend(self.pitch_history, pitch_hz, PitchHistoryLen)
    IN  [self EXCEPT !.pitch_history  = history,
                     !.current_pitch  = Median(history),
                     !.max_formant_hz = CeilingFor(self, Median(history))]

\* AdaptiveFormantDetector.set_pitch
SetPitch(self, pitch_hz) ==
    IF pitch_hz > 0
    THEN LET history == DequeAppend(self.pitch_history, pitch_hz, PitchHistoryLen)
         IN  [self EXCEPT !.pitch_history  = history,
                          !.current_pitch  = Median(history),
                          !.max_formant_hz = CeilingFor(self, Median(history))]
    ELSE self

\* process_chunk, line 191: the ceiling handed to Praat (maximum_formant)
MaximumFormant(self) == self.max_formant_hz

\* the detector after set_pitch was called with each pitch of a list in turn
RECURSIVE Observed(_, _)
Observed(self, pitches) ==
    IF pitches = <<>> THEN self
    ELSE Observed(SetPitch(self, Head(pitches)), Tail(pitches))

\* pitches handed to set_pitch: silence (0), a negative value, and values
\* below, at, between and above the two breakpoints
PitchInputs == {-1, 0, 100, 165, 200, 250, 300}

\* observations made before the explored calls: none, or a history one short
\* of full or full, of one pitch or of two
EarlierPitches ==
    {<<>>} \cup
    {[i \in 1..n |-> IF i <= n \div 2 THEN p ELSE q] :
        n \in {PitchHistoryLen - 1, PitchHistoryLen}, p \in {100, 165}, q \in {165, 300}}

\* calls explored on the adaptive detector
MaxObservations == 3

\* nothing observed yet on the adaptive detector
AdaptiveFresh ==
    [op |-> "init", pitch |-> 0, invoked |-> FALSE, ceiling |-> 0, total |-> 0,
     evictions |-> 0]

ADSetPitch(pitch_hz) ==
    /\ steps < MaxObservations
    /\ fd' = SetPitch(fd, pitch_hz)
    /\ fd_obs' = [op |-> "set_pitch", pitch |-> pitch_hz, invoked |-> FALSE,
                  ceiling |-> 0, total |-> fd_obs.total,
                  evictions |-> IF Len(fd'.pitch_history) = Len(fd.pitch_history)
                                   /\ fd' # fd
                                THEN fd_obs.evictions + 1 ELSE fd_obs.evictions,
                  before |-> fd]
    /\ steps' = steps + 1
    /\ UNCHANGED <<hp, hp_obs, ss, ss_obs, srv, srv_obs, loop>>

\* the inherited process_chunk on one window; ceiling is what the backend
\* was given when it was invoked
ADProcessChunk(amp, praat) ==
    /\ steps < MaxObservations
    /\ LET r == FormantProcessChunk(fd, Chunk(fd_obs.total, fd.window_samples, amp),
                                    praat)
       IN  /\ fd' = r.self
           /\ fd_obs' = [op |-> "process_chunk", pitch |-> 0,
                         invoked |-> r.invoked,
                         ceiling |-> IF r.invoked THEN MaximumFormant(fd) ELSE 0,
                         total |-> fd_obs.total + fd.window_samples,
                         evictions |-> fd_obs.evictions,
                         before |-> fd]
    /\ steps' = steps + 1
    /\ UNCHANGED <<hp, hp_obs, ss, ss_obs, srv, srv_obs, loop>>

\* the inherited reset (AdaptiveFormantDetector does not override it)
ADReset ==
    /\ steps < MaxObservations
    /\ fd' = FormantReset(fd)
    /\ fd_obs' = [op |-> "reset", pitch |-> 0, invoked |-> FALSE, ceiling |-> 0,
                  total |-> 0, evictions |-> fd_obs.evictions, before |-> fd]
    /\ steps' = steps + 1
    /\ UNCHANGED <<hp, hp_obs, ss, ss_obs, srv, srv_obs, loop>>

(***************************************************************************)
(* Pitch backends.  A backend buffer holds samples of the pitch stream; it  *)
(* is kept as the list of the maximal runs <<first, last>> of consecutive   *)
(* stream positions it holds, oldest first.                                 *)
(***************************************************************************)
RECURSIVE RunsLen(_)
\* len(buffer)
RunsLen(b) ==
    IF b = <<>> THEN 0
    ELSE (b[Len(b)][2] - b[Len(b)][1] + 1) + RunsLen(SubSeq(b, 1, Len(b) - 1))

\* np.concatenate([buffer, audio]), audio being stream positions first..first+n-1
RunsConcat(b, first, n) ==
    IF n = 0 THEN b
    ELSE IF b # <<>> /\ b[Len(b)][2] + 1 = first
         THEN [b EXCEPT ![Len(b)] = <<b[Len(b)][1], first + n - 1>>]
         ELSE Append(b, <<first, first + n - 1>>)

RECURSIVE RunsLast(_, _)
\* buffer[-k:] for k >= 1
RunsLast(b, k) ==
    IF b = <<>> THEN <<>>
    ELSE LET last == b[Len(b)]
             size == last[2] - last[1] + 1
         IN  IF size >= k
             THEN << <<last[2] - k + 1, last[2]>> >>
             ELSE RunsLast(SubSeq(b, 1, Len(b) - 1), k - size) \o <<last>>

\* TorchCREPEDetector.min_samples
CrepeMinSamples == 1024

\* MelodiaDetector.frame_size (default)
FrameSize == 2048

\* TorchCREPEDetector fmin / fmax (defaults)
CrepeFmin == 50

CrepeFmax == 2000

\* HybridPitchDetector.confidence_threshold = 0.6, in tenths
ConfidenceThreshold == 6

\* the voicing threshold 0.5 of TorchCREPEDetector.process_chunk, in tenths
CrepeVoicingTenths == 5

PitchResult(frequency, confidence, voiced, algorithm) ==
    [none |-> FALSE, frequency |-> frequency, confidence |-> confidence,
     voiced |-> voiced, algorithm |-> algorithm]

\* TorchCREPEDetector.__init__ / _load_model: loaded says whether the model
\* loaded (a failed load is caught, the object is still constructed)
CrepeDetector(loaded) ==
    [_model_loaded |-> loaded, buffer |-> <<>>, min_samples |-> CrepeMinSamples]

\* MelodiaDetector.__init__ / _load_essentia
MelodiaDetector(loaded) ==
    [_loaded |-> loaded, buffer |-> <<>>, frame_size |-> FrameSize,
     min_samples |-> FrameSize * 2]

\* TorchCREPEDetector.process_chunk.  net is the outcome of the inference:
\* [raised |-> TRUE] or [raised |-> FALSE, freq |-> Hz, conf |-> tenths].
\* ran: whether the model was run; seen: the samples it was run on.
CrepeProcessChunk(self, first, n, net) ==
    IF ~self._model_loaded
    THEN [self |-> self, result |-> NoResult, ran |-> FALSE, seen |-> <<>>]
    ELSE
      LET buffer == RunsConcat(self.buffer, first, n)
      IN  IF RunsLen(buffer) < self.min_samples
          THEN [self |-> [self EXCEPT !.buffer = buffer], result |-> NoResult,
                ran |-> FALSE, seen |-> <<>>]
          ELSE
            LET voiced == /\ net.conf > CrepeVoicingTenths
                          /\ CrepeFmin <= net.freq
                          /\ net.freq <= CrepeFmax
            IN  [self   |-> [self EXCEPT !.buffer = <<>>],
                 result |-> IF net.raised THEN NoResult
                            ELSE PitchResult(IF voiced THEN net.freq ELSE 0,
                                             net.conf, voiced, "torchcrepe"),
                 ran    |-> TRUE,
                 seen   |-> buffer]

\* MelodiaOverlap keeping everything that was analysed
MelodiaOverlapWhole(self, buffer) == buffer

\* MelodiaDetector.process_chunk, lines 237-239: what stays buffered after an
\* analysis, self.buffer[-(self.frame_size // 2):]
MelodiaOverlap(self, buffer) == RunsLast(buffer, self.frame_size \div 2)

\* MelodiaDetector.process_chunk.  net is the outcome of the Essentia calls:
\* [raised |-> TRUE], or [raised |-> FALSE, frames |-> 0] (no frame came
\* back), or [raised |-> FALSE, frames |-> n, valid |-> BOOLEAN, freq, conf]
\* (valid: some frame has pitch > 0; freq/conf are those of the last one).
MelodiaProcessChunk(self, first, n, net) ==
    IF ~self._loaded
    THEN [self |-> self, result |-> NoResult, ran |-> FALSE, seen |-> <<>>]
    ELSE
      LET buffer == RunsConcat(self.buffer, first, n)
      IN  IF RunsLen(buffer) < self.min_samples
          THEN [self |-> [self EXCEPT !.buffer = buffer], result |-> NoResult,
                ran |-> FALSE, seen |-> <<>>]
          ELSE
            [self   |-> [self EXCEPT !.buffer = MelodiaOverlap(self, buffer)],
             result |-> IF net.raised THEN NoResult
                        ELSE IF net.frames = 0
                        THEN PitchResult(0, 0, FALSE, "melodia")
                        ELSE IF net.valid
                        THEN PitchResult(net.freq, net.conf, TRUE, "melodia")
                        ELSE PitchResult(0, 0, FALSE, "melodia"),
             ran    |-> TRUE,
             seen   |-> buffer]

\* TorchCREPEDetector.reset / MelodiaDetector.reset
BackendReset(self) == [self EXCEPT !.buffer = <<>>]

(***************************************************************************)
(* HybridPitchDetector                                                     *)
(***************************************************************************)
\* self._crepe / self._melodia are None when the constructor of the backend
\* raised; otherwise they hold the backend, loaded or not.
Absent == [absent |-> TRUE]

Present(backend) == [absent |-> FALSE, obj |-> backend]

\* HybridPitchDetector.__init__
HybridDetector(mode, crepe, melodia) ==
    [ mode                 |-> mode,
      _crepe               |-> crepe,
      _melodia             |-> melodia,
      confidence_threshold |-> ConfidenceThreshold,
      last_algorithm       |-> "None",
      avg_latency_ms       |-> 0 ]

\* one call of a backend from HybridPitchDetector.process_chunk
CallCrepe(self, first, n, net) ==
    LET r == CrepeProcessChunk(self._crepe.obj, first, n, net)
    IN  [self   |-> [self EXCEPT !._crepe = Present(r.self)],
         result |-> r.result,
         calls  |-> << [backend |-> "crepe", result |-> r.result,
                         ran |-> r.ran, seen |-> r.seen] >>]

CallMelodia(self, first, n, net) ==
    LET r == MelodiaProcessChunk(self._melodia.obj, first, n, net)
    IN  [self   |-> [self EXCEPT !._melodia = Present(r.self)],
         result |-> r.result,
         calls  |-> << [backend |-> "melodia", result |-> r.result,
                         ran |-> r.ran, seen |-> r.seen] >>]

NoCall(self) == [self |-> self, result |-> NoResult, calls |-> <<>>]

\* LowConfidence with the threshold itself counted as low
LowConfidenceInclusive(self, result) ==
    ~result.none /\ result.confidence <= self.confidence_threshold

\* process_chunk, lines 362-374: the 'auto' branch
\* low confidence of the primary: the test of line 368
LowConfidence(self, result) ==
    ~result.none /\ result.confidence < self.confidence_threshold

\* SecondaryWins with the comparison reversed
SecondaryWinsReversed(melodia_result, result) ==
    ~melodia_result.none /\ melodia_result.confidence < result.confidence

\* the test of line 371
SecondaryWins(melodia_result, result) ==
    ~melodia_result.none /\ melodia_result.confidence > result.confidence

AutoBranch(self, first, n, cnet, mnet) ==
    IF ~self._crepe.absent
    THEN LET c == CallCrepe(self, first, n, cnet)
         IN  IF LowConfidence(self, c.result) /\ ~c.self._melodia.absent
             THEN LET m == CallMelodia(c.self, first, n, mnet)
                  IN  [self   |-> m.self,
                       result |-> IF SecondaryWins(m.result, c.result)
                                  THEN m.result ELSE c.result,
                       calls  |-> c.calls \o m.calls]
             ELSE c
    ELSE IF ~self._melodia.absent
    THEN CallMelodia(self, first, n, mnet)
    ELSE NoCall(self)

\* Arbitrate falling back to the 'auto' branch whenever the selected backend
\* is missing
ArbitrateFallback(self, first, n, cnet, mnet) ==
    IF self.mode = "crepe" /\ ~self._crepe.absent
    THEN CallCrepe(self, first, n, cnet)
    ELSE IF self.mode = "melodia" /\ ~self._melodia.absent
    THEN CallMelodia(self, first, n, mnet)
    ELSE AutoBranch(self, first, n, cnet, mnet)

\* process_chunk, lines 353-374: choose and run the backend(s)
Arbitrate(self, first, n, cnet, mnet) ==
    IF self.mode = "crepe" /\ ~self._crepe.absent
    THEN CallCrepe(self, first, n, cnet)
    ELSE IF self.mode = "melodia" /\ ~self._melodia.absent
    THEN CallMelodia(self, first, n, mnet)
    ELSE IF self.mode = "auto"
    THEN AutoBranch(self, first, n, cnet, mnet)
    ELSE NoCall(self)

\* UpdateStats recording the algorithm of the first result only
UpdateStatsFirstOnly(self, result, latency) ==
    IF ~result.none
    THEN [self EXCEPT
            !.avg_latency_ms = (self.avg_latency_ms * 9 + latency) \div 10,
            !.last_algorithm = IF self.last_algorithm = "None"
                               THEN result.algorithm
                               ELSE self.last_algorithm]
    ELSE self

\* process_chunk, lines 376-380: statistics (latency is the measured time of
\* the call in ms)
UpdateStats(self, result, latency) ==
    IF ~result.none
    THEN [self EXCEPT
            !.avg_latency_ms = (self.avg_latency_ms * 9 + latency) \div 10,
            !.last_algorithm = result.algorithm]
    ELSE self

\* HybridPitchDetector.process_chunk
HybridProcessChunk(self, first, n, cnet, mnet, latency) ==
    LET a == Arbitrate(self, first, n, cnet, mnet)
    IN  [self   |-> UpdateStats(a.self, a.result, latency),
         result |-> a.result,
         calls  |-> a.calls]

\* a set_mode that also drops the audio the backends have buffered
HybridSetModeResets(self, mode) ==
    IF mode \in {"auto", "crepe", "melodia"}
    THEN [self EXCEPT
            !.mode     = mode,
            !._crepe   = IF self._crepe.absent THEN Absent
                         ELSE Present([self._crepe.obj EXCEPT !.buffer = <<>>]),
            !._melodia = IF self._melodia.absent THEN Absent
                         ELSE Present([self._melodia.obj EXCEPT !.buffer = <<>>])]
    ELSE self

\* HybridPitchDetector.set_mode
HybridSetMode(self, mode) ==
    IF mode \in {"auto", "crepe", "melodia"}
    THEN [self EXCEPT !.mode = mode]
    ELSE self

\* HybridPitchDetector.reset
HybridReset(self) ==
    [self EXCEPT
       !._crepe   = IF self._crepe.absent THEN Absent
                    ELSE Present(BackendReset(self._crepe.obj)),
       !._melodia = IF self._melodia.absent THEN Absent
                    ELSE Present(BackendReset(self._melodia.obj))]

(***************************************************************************)
(* StreamingSeparator.  Input frames are stream positions (one stereo      *)
(* frame each); separated samples are integers; a sample of the stitched   *)
(* output is the exact rational <<numerator, denominator>>.                *)
(***************************************************************************)
\* StreamingSeparator.__init__, lines 33-36 and 52-58, for a chunk of
\* chunk_samples samples and an overlap ratio of overlap_pct / 100.
\* int() truncates: hop_samples = int(chunk_samples * (1 - overlap)).
Separator(chunk_samples, overlap_pct) ==
    LET hop_samples == (chunk_samples * (100 - overlap_pct)) \div 100
    IN  [ chunk_samples              |-> chunk_samples,
          hop_samples                |-> hop_samples,
          overlap_samples            |-> chunk_samples - hop_samples,
          input_maxlen               |-> chunk_samples * 2,
          input_buffer               |-> <<>>,
          output_buffer              |-> [i \in 1..(chunk_samples - hop_samples) |-> 0],
          samples_since_last_process |-> 0,
          last_process_time          |-> 0,
          avg_latency_ms             |-> 0 ]

\* a fade-in that excludes the endpoint: i / n
FadeInOverN(n, i) == <<i, n>>

\* np.linspace(0, 1, n)[i] for 0 <= i < n, as <<numerator, denominator>>
FadeIn(n, i) == IF n = 1 THEN <<0, 1>> ELSE <<i, n - 1>>

\* a blend whose retained tail is not faded out
BlendedTailKept(self, vocals_mono, i) ==
    LET w == FadeIn(self.overlap_samples, i)
    IN  << self.output_buffer[i + 1] * w[2] + vocals_mono[i + 1] * w[1], w[2] >>

\* _process_buffer, lines 144-149: sample i (0-based) of the blended region
Blended(self, vocals_mono, i) ==
    LET w == FadeIn(self.overlap_samples, i)
    IN  << self.output_buffer[i + 1] * (w[2] - w[1]) + vocals_mono[i + 1] * w[1],
           w[2] >>

Exact(seq) == [i \in 1..Len(seq) |-> <<seq[i], 1>>]

\* _process_buffer, lines 143-149: the array `blended`, empty when there is no
\* overlap
BlendedRegion(self, vocals_mono) ==
    [i \in 1..self.overlap_samples |-> Blended(self, vocals_mono, i - 1)]

\* Stitch without the truncation to hop_samples
StitchUntruncated(self, vocals_mono) ==
    IF self.overlap_samples > 0
    THEN [i \in 1..self.overlap_samples |-> Blended(self, vocals_mono, i - 1)]
           \o Exact(PySlice(vocals_mono, self.overlap_samples,
                            self.hop_samples + self.overlap_samples))
    ELSE Exact(PySlice(vocals_mono, 0, self.hop_samples))

\* _process_buffer, lines 140-157: the segment returned
Stitch(self, vocals_mono) ==
    IF self.overlap_samples > 0
    THEN PySlice([i \in 1..self.overlap_samples |-> Blended(self, vocals_mono, i - 1)]
                   \o Exact(PySlice(vocals_mono, self.overlap_samples,
                                    self.hop_samples + self.overlap_samples)),
                 0, self.hop_samples)
    ELSE Exact(PySlice(vocals_mono, 0, self.hop_samples))

\* _process_buffer, line 160: the overlap kept for the next call
RetainedTail(self, vocals_mono) == PyLast(vocals_mono, self.overlap_samples)

\* _process_buffer, line 113: the frames handed to the model
ModelInput(self) == PyLast(self.input_buffer, self.chunk_samples)

\* StreamingSeparator._process_buffer.  demucs is the outcome of apply_model:
\* [raised |-> TRUE] or [raised |-> FALSE, vocals |-> one sample per input
\* frame]; process_time is the measured time in ms.
ProcessBuffer(self, demucs, process_time) ==
    IF demucs.raised
    THEN [self |-> self, result |-> [none |-> TRUE, raised |-> TRUE],
          ran |-> TRUE, model_input |-> ModelInput(self), blended |-> <<>>]
    ELSE [self   |-> [self EXCEPT
                        !.output_buffer = RetainedTail(self, demucs.vocals),
                        !.samples_since_last_process = 0,
                        !.avg_latency_ms =
                            (self.avg_latency_ms * 9 + process_time) \div 10,
                        !.last_process_time = process_time],
          result |-> [none |-> FALSE, raised |-> FALSE,
                      output |-> Stitch(self, demucs.vocals)],
          ran |-> TRUE, model_input |-> ModelInput(self),
          blended |-> BlendedRegion(self, demucs.vocals)]

\* deque(maxlen=m) after appending every element of xs
RECURSIVE DequeExtend(_, _, _)
DequeExtend(d, xs, m) ==
    IF xs = <<>> THEN d
    ELSE DequeExtend(DequeAppend(d, Head(xs), m), Tail(xs), m)

\* process_chunk, lines 103: is a chunk due?
ChunkDue(self) ==
    /\ self.samples_since_last_process >= self.hop_samples
    /\ Len(self.input_buffer) >= self.chunk_samples

\* StreamingSeparator.process_chunk for an interleaved stereo array of
\* `length` values whose first frame is stream position `first`.  An odd
\* length cannot be reshaped to (n, 2): numpy raises before anything is
\* stored.
SeparatorProcessChunk(self, first, length, demucs, process_time) ==
    IF length % 2 = 1
    THEN [self |-> self, result |-> [none |-> TRUE, raised |-> TRUE],
          ran |-> FALSE, model_input |-> <<>>, blended |-> <<>>]
    ELSE
      LET n      == length \div 2
          frames == [i \in 1..n |-> first + i - 1]
          fed    == [self EXCEPT
                       !.input_buffer =
                           DequeExtend(self.input_buffer, frames, self.input_maxlen),
                       !.samples_since_last_process =
                           self.samples_since_last_process + n]
      IN  IF ChunkDue(fed)
          THEN ProcessBuffer(fed, demucs, process_time)
          ELSE [self |-> fed, result |-> [none |-> TRUE, raised |-> FALSE],
                ran |-> FALSE, model_input |-> <<>>, blended |-> <<>>]

\* StreamingSeparator.reset
SeparatorReset(self) ==
    [self EXCEPT
       !.input_buffer               = <<>>,
       !.output_buffer              = [i \in 1..self.overlap_samples |-> 0],
       !.samples_since_last_process = 0]

(***************************************************************************)
(* Pitch detector: observations, inputs, actions.                          *)
(***************************************************************************)
PitchModes == {"auto", "crepe", "melodia"}

\* chunk lengths pushed to the pitch detector
PitchChunkLens == {0, 480, 1024, 4096}

\* outcomes of a torchcrepe inference
CrepeOutcomes ==
    {[raised |-> TRUE]} \cup
    {[raised |-> FALSE, freq |-> o[1], conf |-> o[2]] :
        o \in {<<220, 3>>, <<220, 6>>, <<220, 9>>, <<3000, 9>>}}

\* outcomes of a Melodia run
MelodiaOutcomes ==
    {[raised |-> TRUE], [raised |-> FALSE, frames |-> 0],
     [raised |-> FALSE, frames |-> 1, valid |-> FALSE, freq |-> 0, conf |-> 0]} \cup
    {[raised |-> FALSE, frames |-> 1, valid |-> TRUE, freq |-> 440, conf |-> c] :
        c \in {2, 3, 8}}

\* measured duration of one HybridPitchDetector.process_chunk call, in ms
PitchLatencies == {20}

\* a backend attribute after HybridPitchDetector.__init__: None, or the
\* backend with its model loaded or not
CrepeStates == {Absent} \cup {Present(CrepeDetector(l)) : l \in BOOLEAN}

MelodiaStates == {Absent} \cup {Present(MelodiaDetector(l)) : l \in BOOLEAN}

HPProcessChunk(n, cnet, mnet, latency) ==
    /\ steps < MaxSteps
    /\ LET r == HybridProcessChunk(hp, hp_obs.total + 1, n, cnet, mnet, latency)
       IN  /\ hp' = r.self
           /\ hp_obs' = [total  |-> hp_obs.total + n,
                         op     |-> "process_chunk",
                         result |-> r.result,
                         calls  |-> r.calls,
                         before |-> hp,
                         n      |-> n,
                         tag    |-> IF r.result.none THEN hp_obs.tag
                                    ELSE r.result.algorithm]
    /\ steps' = steps + 1
    /\ UNCHANGED <<fd, fd_obs, ss, ss_obs, srv, srv_obs, loop>>

HPSetMode(mode) ==
    /\ steps < MaxSteps
    /\ hp' = HybridSetMode(hp, mode)
    /\ hp_obs' = [hp_obs EXCEPT !.op = "set_mode", !.result = NoResult,
                                !.calls = <<>>, !.before = hp, !.n = 0]
    /\ steps' = steps + 1
    /\ UNCHANGED <<fd, fd_obs, ss, ss_obs, srv, srv_obs, loop>>

HPReset ==
    /\ steps < MaxSteps
    /\ hp' = HybridReset(hp)
    /\ hp_obs' = [hp_obs EXCEPT !.op = "reset", !.result = NoResult,
                                !.calls = <<>>, !.before = hp, !.n = 0]
    /\ steps' = steps + 1
    /\ UNCHANGED <<fd, fd_obs, ss, ss_obs, srv, srv_obs, loop>>

(***************************************************************************)
(* Separator: observations, inputs, actions.                               *)
(***************************************************************************)
\* separator: chunk_samples ranges over 1..MaxChunkSamples
MaxChunkSamples == 3

\* overlap ratios of the separator, in percent
OverlapPercents == {0, 25, 50, 75, 90}

\* what apply_model returns for n input frames: a constant signal, a ramp,
\* or an exception
DemucsOutcomes(n) ==
    {[raised |-> TRUE]} \cup
    {[raised |-> FALSE, vocals |-> [i \in 1..n |-> 1]]} \cup
    {[raised |-> FALSE, vocals |-> [i \in 1..n |-> i + 2]]}

\* measured duration of one _process_buffer call, in ms
SeparatorLatencies == {30}

SSProcessChunk(length, demucs, process_time) ==
    /\ steps < MaxSteps
    /\ LET r == SeparatorProcessChunk(ss, ss_obs.total + 1, length, demucs,
                                      process_time)
       IN  /\ ss' = r.self
           /\ ss_obs' = [total       |-> ss_obs.total + (length \div 2),
                         op          |-> "process_chunk",
                         result      |-> r.result,
                         ran         |-> r.ran,
                         model_input |-> r.model_input,
                         vocals      |-> IF r.ran /\ ~demucs.raised
                                         THEN demucs.vocals ELSE <<>>,
                         blended     |-> r.blended,
                         before      |-> ss]
    /\ steps' = steps + 1
    /\ UNCHANGED <<fd, fd_obs, hp, hp_obs, srv, srv_obs, loop>>

SSReset ==
    /\ steps < MaxSteps
    /\ ss' = SeparatorReset(ss)
    /\ ss_obs' = [ss_obs EXCEPT !.op = "reset",
                                !.result = [none |-> TRUE, raised |-> FALSE],
                                !.ran = FALSE, !.model_input = <<>>,
                                !.vocals = <<>>, !.blended = <<>>,
                                !.before = ss]
    /\ steps' = steps + 1
    /\ UNCHANGED <<fd, fd_obs, hp, hp_obs, srv, srv_obs, loop>>

(***************************************************************************)
(* LightweightSeparator: the band-pass separator the server uses when the  *)
(* mode is not 'full' or CUDA is missing.  Its buffer holds the stream     *)
(* positions of the mono samples waiting to be filtered.                   *)
(***************************************************************************)
\* LightweightSeparator.__init__
LightSeparator(chunk_samples) ==
    [ chunk_samples |-> chunk_samples,
      min_samples   |-> chunk_samples,
      input_buffer  |-> <<>> ]

\* LightProcessChunk dropping what is left in the buffer after a block
LightProcessChunkDrops(self, first, length) ==
    LET n      == IF length > 0 /\ length % 2 = 0 THEN length \div 2 ELSE length
        buffer == self.input_buffer \o [i \in 1..n |-> first + i - 1]
    IN  IF Len(buffer) >= self.min_samples
        THEN [self   |-> [self EXCEPT !.input_buffer = <<>>],
              result |-> [none |-> FALSE, raised |-> FALSE,
                          output |-> PySlice(buffer, 0, self.min_samples)]]
        ELSE [self   |-> [self EXCEPT !.input_buffer = buffer],
              result |-> [none |-> TRUE, raised |-> FALSE]]

\* LightweightSeparator.process_chunk for an array of `length` values: an
\* even length is read as interleaved stereo and averaged to length / 2 mono
\* samples.  A failure of the filter is caught inside: the unfiltered
\* samples are returned.
LightProcessChunk(self, first, length) ==
    LET n      == IF length > 0 /\ length % 2 = 0 THEN length \div 2 ELSE length
        buffer == self.input_buffer \o [i \in 1..n |-> first + i - 1]
    IN  IF Len(buffer) >= self.min_samples
        THEN [self   |-> [self EXCEPT
                            !.input_buffer = PyFrom(buffer, self.min_samples)],
              result |-> [none |-> FALSE, raised |-> FALSE,
                          output |-> PySlice(buffer, 0, self.min_samples)]]
        ELSE [self   |-> [self EXCEPT !.input_buffer = buffer],
              result |-> [none |-> TRUE, raised |-> FALSE]]

\* LightweightSeparator.reset
LightReset(self) == [self EXCEPT !.input_buffer = <<>>]

(***************************************************************************)
(* AnalysisServer: the three streaming sessions (separation, pitch and    *)
(* formant messages).  The server record carries the attributes of the     *)
(* Python object; a detector attribute is Absent (None) or                 *)
(* Present(object).  The detectors are built with the window sizes of the  *)
(* idle objects above in place of the 48 kHz sizes.                        *)
(***************************************************************************)
Kinds == {"stream", "pitch", "formant"}

\* AnalysisServer.__init__, lines 61-85; cuda is the module-level
\* CUDA_AVAILABLE
AnalysisServer(cuda) ==
    [ CUDA_AVAILABLE              |-> cuda,
      _streaming_separator        |-> Absent,
      _streaming_pitch_detector   |-> Absent,
      _streaming_formant_detector |-> Absent,
      _streaming_active           |-> FALSE,
      _stream_mode                |-> "full",
      _pitch_streaming_active     |-> FALSE,
      _pitch_mode                 |-> "auto",
      _formant_streaming_active   |-> FALSE,
      _use_separated_vocals       |-> FALSE,
      active_tasks                |-> {} ]

\* a handler's reply
Ok(status, buffered) == [error |-> FALSE, status |-> status, buffered |-> buffered]

Err(message) == [error |-> TRUE, status |-> message, buffered |-> FALSE]

\* is the separator the Demucs StreamingSeparator (or the lightweight one)?
IsDemucs(obj) == "hop_samples" \in DOMAIN obj

\* property streaming_separator, lines 95-112: build the separator on
\* first use
StreamingSeparatorOf(self) ==
    IF self._streaming_separator.absent
    THEN [self EXCEPT
            !._streaming_separator =
                IF self._stream_mode = "full" /\ self.CUDA_AVAILABLE
                THEN Present(Separator(2, 50))
                ELSE Present(LightSeparator(2))]
    ELSE self

\* property streaming_pitch_detector, lines 121-130
StreamingPitchDetectorOf(self) ==
    IF self._streaming_pitch_detector.absent
    THEN [self EXCEPT
            !._streaming_pitch_detector =
                Present(HybridDetector(self._pitch_mode,
                                       Present(CrepeDetector(TRUE)),
                                       Present(MelodiaDetector(TRUE))))]
    ELSE self

\* property streaming_formant_detector, lines 139-150
StreamingFormantDetectorOf(self) ==
    IF self._streaming_formant_detector.absent
    THEN [self EXCEPT !._streaming_formant_detector = Present(FormantDetector(1, 1))]
    ELSE self

\* sample rate of the scaled detectors, one sample per millisecond (the
\* server passes 48000 with windows of 1200, 2048 and 72000 samples)
SampleRate == 1000

\* StreamingSeparator.get_latency_ms: the duration of one chunk plus the
\* average processing time
SeparatorLatencyMs(self) ==
    (self.chunk_samples * 1000) \div SampleRate + self.avg_latency_ms

\* LightweightSeparator.get_latency_ms
LightLatencyMs(self) == (self.min_samples * 1000) \div SampleRate

\* HybridPitchDetector.get_latency_ms
HybridLatencyMs(self) == self.avg_latency_ms

\* StreamingFormantDetector.get_latency_ms:
\* (window_length + hop_size) * 1000, both in seconds
FormantLatencyMs(self) ==
    ((self.window_samples + self.hop_samples) * 1000) \div SampleRate

\* a reply or data message that carries no latency
NoLatency == -1

\* what a handler did: the server after it, its reply, whether an exception
\* left the handler, whether a detector's process_chunk was called, how many
\* backend inferences ran, whether one of them raised, and the data
\* messages sent; latency is the estimatedLatencyMs of a start reply or the
\* latencyMs of the data message, backends the pitch backends called, mode
\* the mode named in the reply
Handled(self, response, invoked, inferences, failed, sent) ==
    [self |-> self, response |-> response, escaped |-> FALSE,
     invoked |-> invoked, inferences |-> inferences, failed |-> failed,
     sent |-> sent, latency |-> NoLatency, backends |-> <<>>, mode |-> "none"]

\* the latency get_latency_ms() returns for the separator the server holds
StreamLatencyMs(self) ==
    IF IsDemucs(self._streaming_separator.obj)
    THEN SeparatorLatencyMs(self._streaming_separator.obj)
    ELSE LightLatencyMs(self._streaming_separator.obj)

\* a chunk turned away before the try block
Refused(self, message) == Handled(self, Err(message), FALSE, 0, FALSE, <<>>)

\* handle_stream_start
HandleStreamStart(self, mode) ==
    LET built == StreamingSeparatorOf([self EXCEPT
                                         !._stream_mode = mode,
                                         !._streaming_active = TRUE,
                                         !._streaming_separator = Absent])
    IN  [Handled(built, Ok("started", FALSE), FALSE, 0, FALSE, <<>>)
            EXCEPT !.latency = StreamLatencyMs(built), !.mode = mode]

\* handle_stream_start when the constructor of StreamingSeparator raises
\* (_load_model prints the error and re-raises it): lines 158-162 have run,
\* the exception leaves the handler at line 165
HandleStreamStartRaised(self, mode) ==
    [Handled([self EXCEPT !._stream_mode = mode,
                          !._streaming_active = TRUE,
                          !._streaming_separator = Absent],
             Err("exception"), FALSE, 0, FALSE, <<>>)
        EXCEPT !.escaped = TRUE]

\* an except branch that also ends the session
StreamAudioFailedStops(self, ran) ==
    Handled([self EXCEPT !._streaming_active = FALSE],
            Err("exception"), TRUE, IF ran THEN 1 ELSE 0, ran, <<>>)

\* handle_stream_audio, lines 222-224: the except branch
StreamAudioFailed(self, ran) ==
    Handled(self, Err("exception"), TRUE, IF ran THEN 1 ELSE 0, ran, <<>>)

\* a guard that lets every chunk through
StreamActiveAlways(self) == TRUE

\* handle_stream_audio, line 180
StreamActive(self) == self._streaming_active

\* a handler that also feeds the separated vocals to the pitch detector
\* once analysis:use_separated has enabled it (lines 216-219, commented out)
HandleStreamAudioRouted(self, length, first, demucs, process_time) ==
    IF ~StreamActive(self) THEN Refused(self, "Streaming not active")
    ELSE IF length = 0 THEN Refused(self, "No audio data")
    ELSE
      LET built == StreamingSeparatorOf(self)
          obj   == built._streaming_separator.obj
          r     == IF IsDemucs(obj)
                   THEN SeparatorProcessChunk(obj, first, length, demucs,
                                              process_time)
                   ELSE LightProcessChunk(obj, first, length)
          ran   == IsDemucs(obj) /\ r.ran
          after == [built EXCEPT !._streaming_separator = Present(r.self)]
          fed   == IF after._use_separated_vocals /\ after._pitch_streaming_active
                      /\ ~r.result.none /\ ~after._streaming_pitch_detector.absent
                   THEN [after EXCEPT
                           !._streaming_pitch_detector =
                              Present(HybridProcessChunk(
                                         @.obj, first, 480, [raised |-> TRUE],
                                         [raised |-> TRUE], 20).self)]
                   ELSE after
      IN  IF r.result.raised
          THEN StreamAudioFailed(after, ran)
          ELSE [Handled(fed, Ok("processed", r.result.none), TRUE,
                        IF ran THEN 1 ELSE 0, FALSE,
                        IF r.result.none THEN <<>> ELSE <<"stream:vocals">>)
                   EXCEPT !.latency = IF r.result.none THEN NoLatency
                                      ELSE StreamLatencyMs(after)]

\* handle_stream_audio for a payload of `length` float32 values (0: no
\* audio), the first frame at stream position `first`
HandleStreamAudio(self, length, first, demucs, process_time) ==
    IF ~StreamActive(self) THEN Refused(self, "Streaming not active")
    ELSE IF length = 0 THEN Refused(self, "No audio data")
    ELSE
      LET built == StreamingSeparatorOf(self)
          obj   == built._streaming_separator.obj
          r     == IF IsDemucs(obj)
                   THEN SeparatorProcessChunk(obj, first, length, demucs,
                                              process_time)
                   ELSE LightProcessChunk(obj, first, length)
          ran   == IsDemucs(obj) /\ r.ran
          after == [built EXCEPT !._streaming_separator = Present(r.self)]
      IN  IF r.result.raised
          THEN StreamAudioFailed(after, ran)
          ELSE [Handled(after, Ok("processed", r.result.none), TRUE,
                        IF ran THEN 1 ELSE 0, FALSE,
                        IF r.result.none THEN <<>> ELSE <<"stream:vocals">>)
                   EXCEPT !.latency = IF r.result.none THEN NoLatency
                                      ELSE StreamLatencyMs(after)]

\* a stop that flips the flag instead of clearing it
HandleStreamStopToggles(self) ==
    Handled([self EXCEPT
               !._streaming_active = ~self._streaming_active,
               !._streaming_separator =
                   IF self._streaming_separator.absent THEN Absent
                   ELSE IF IsDemucs(self._streaming_separator.obj)
                   THEN Present(SeparatorReset(self._streaming_separator.obj))
                   ELSE Present(LightReset(self._streaming_separator.obj))],
            Ok("stopped", FALSE), FALSE, 0, FALSE, <<>>)

\* handle_stream_stop
HandleStreamStop(self) ==
    Handled([self EXCEPT
               !._streaming_active = FALSE,
               !._streaming_separator =
                   IF self._streaming_separator.absent THEN Absent
                   ELSE IF IsDemucs(self._streaming_separator.obj)
                   THEN Present(SeparatorReset(self._streaming_separator.obj))
                   ELSE Present(LightReset(self._streaming_separator.obj))],
            Ok("stopped", FALSE), FALSE, 0, FALSE, <<>>)

\* handle_pitch_start
HandlePitchStart(self, mode) ==
    LET built == StreamingPitchDetectorOf([self EXCEPT
                                             !._pitch_mode = mode,
                                             !._pitch_streaming_active = TRUE,
                                             !._streaming_pitch_detector = Absent])
    IN  [Handled(built, Ok("started", FALSE), FALSE, 0, FALSE, <<>>)
            EXCEPT !.latency = HybridLatencyMs(built._streaming_pitch_detector.obj),
                   !.mode    = mode]

\* number of float32 values of a payload after the stereo-to-mono step of
\* handle_pitch_stream / handle_formant_stream
MonoLength(length) == IF length % 2 = 0 THEN length \div 2 ELSE length

\* handle_pitch_stream, line 430
PitchActive(self) == self._pitch_streaming_active

\* handle_pitch_stream
HandlePitchStream(self, length, first, cnet, mnet, latency) ==
    IF ~PitchActive(self) THEN Refused(self, "Pitch streaming not active")
    ELSE IF length = 0 THEN Refused(self, "No audio data")
    ELSE
      LET built == StreamingPitchDetectorOf(self)
          r     == HybridProcessChunk(built._streaming_pitch_detector.obj, first,
                                      MonoLength(length), cnet, mnet, latency)
          runs  == {i \in 1..Len(r.calls) : r.calls[i].ran}
          after == [built EXCEPT !._streaming_pitch_detector = Present(r.self)]
      IN  [Handled(after, Ok("processed", r.result.none), TRUE,
                   Cardinality(runs),
                   \E i \in runs : IF r.calls[i].backend = "crepe"
                                   THEN cnet.raised ELSE mnet.raised,
                   IF r.result.none THEN <<>> ELSE <<"pitch:data">>)
              EXCEPT !.latency  = IF r.result.none THEN NoLatency
                                  ELSE HybridLatencyMs(r.self),
                     !.backends = [i \in 1..Len(r.calls) |-> r.calls[i].backend]]

\* handle_pitch_stop
HandlePitchStop(self) ==
    Handled([self EXCEPT
               !._pitch_streaming_active = FALSE,
               !._streaming_pitch_detector =
                   IF self._streaming_pitch_detector.absent THEN Absent
                   ELSE Present(HybridReset(self._streaming_pitch_detector.obj))],
            Ok("stopped", FALSE), FALSE, 0, FALSE, <<>>)

\* a set_mode that stores whatever mode it is given
HandlePitchSetModeUnchecked(self, mode) ==
    [Handled([self EXCEPT
                !._pitch_mode = mode,
                !._streaming_pitch_detector =
                    IF self._streaming_pitch_detector.absent THEN Absent
                    ELSE Present([self._streaming_pitch_detector.obj
                                     EXCEPT !.mode = mode])],
             Ok("mode_changed", FALSE), FALSE, 0, FALSE, <<>>)
        EXCEPT !.mode = mode]

\* handle_pitch_set_mode
HandlePitchSetMode(self, mode) ==
    IF mode \notin {"auto", "crepe", "melodia"}
    THEN [Refused(self, "Invalid mode") EXCEPT !.mode = mode]
    ELSE [Handled([self EXCEPT
                     !._pitch_mode = mode,
                     !._streaming_pitch_detector =
                         IF self._streaming_pitch_detector.absent THEN Absent
                         ELSE Present(HybridSetMode(
                                         self._streaming_pitch_detector.obj, mode))],
                  Ok("mode_changed", FALSE), FALSE, 0, FALSE, <<>>)
             EXCEPT !.mode = mode]

\* handle_use_separated
HandleUseSeparated(self, enabled) ==
    Handled([self EXCEPT !._use_separated_vocals = enabled],
            Ok(IF enabled THEN "enabled" ELSE "disabled", FALSE),
            FALSE, 0, FALSE, <<>>)

\* a start that keeps the detector of the previous session
HandleFormantStartKeeps(self) ==
    LET built == StreamingFormantDetectorOf([self EXCEPT
                                               !._formant_streaming_active = TRUE])
    IN  [Handled(built, Ok("started", FALSE), FALSE, 0, FALSE, <<>>)
            EXCEPT !.latency = FormantLatencyMs(built._streaming_formant_detector.obj)]

\* handle_formant_start
HandleFormantStart(self) ==
    LET built == StreamingFormantDetectorOf([self EXCEPT
                                               !._formant_streaming_active = TRUE,
                                               !._streaming_formant_detector = Absent])
    IN  [Handled(built, Ok("started", FALSE), FALSE, 0, FALSE, <<>>)
            EXCEPT !.latency = FormantLatencyMs(built._streaming_formant_detector.obj)]

\* handle_formant_stream, line 542
FormantActive(self) == self._formant_streaming_active

\* handle_formant_stream; total mono samples were pushed before this chunk
HandleFormantStream(self, length, total, amp, praat) ==
    IF ~FormantActive(self) THEN Refused(self, "Formant streaming not active")
    ELSE IF length = 0 THEN Refused(self, "No audio data")
    ELSE
      LET built == StreamingFormantDetectorOf(self)
          r     == FormantProcessChunk(built._streaming_formant_detector.obj,
                                       Chunk(total, MonoLength(length), amp), praat)
          after == [built EXCEPT !._streaming_formant_detector = Present(r.self)]
      IN  [Handled(after, Ok("processed", r.result.none), TRUE,
                   IF r.invoked THEN 1 ELSE 0, r.invoked /\ praat.raised,
                   IF r.result.none THEN <<>> ELSE <<"formant:data">>)
              EXCEPT !.latency = IF r.result.none THEN NoLatency
                                 ELSE FormantLatencyMs(r.self)]

\* handle_formant_stop
HandleFormantStop(self) ==
    Handled([self EXCEPT
               !._formant_streaming_active = FALSE,
               !._streaming_formant_detector =
                   IF self._streaming_formant_detector.absent THEN Absent
                   ELSE Present(FormantReset(self._streaming_formant_detector.obj))],
            Ok("stopped", FALSE), FALSE, 0, FALSE, <<>>)

(***************************************************************************)
(* Lightweight separator: observations, inputs, actions.  The variable ss  *)
(* holds the LightweightSeparator; ss_obs counts the mono samples received *)
(* (total), remembers the count at the last reset (base) and collects the  *)
(* blocks emitted since (blocks).                                          *)
(***************************************************************************)
\* lightweight separator: chunk_samples ranges over 1..MaxLightChunk
MaxLightChunk == 3

LightFresh(light, total) ==
    [total |-> total, base |-> total, op |-> "init",
     result |-> [none |-> TRUE, raised |-> FALSE], blocks |-> <<>>,
     before |-> light, n |-> 0]

\* one LightweightSeparator.process_chunk call on an array of `length` values
LSProcessChunk(length) ==
    /\ steps < MaxSteps
    /\ LET r == LightProcessChunk(ss, ss_obs.total + 1, length)
           n == MonoLength(length)
       IN  /\ ss' = r.self
           /\ ss_obs' = [ss_obs EXCEPT
                           !.total  = ss_obs.total + n,
                           !.op     = "process_chunk",
                           !.result = r.result,
                           !.blocks = IF r.result.none THEN ss_obs.blocks
                                      ELSE Append(ss_obs.blocks, r.result.output),
                           !.before = ss,
                           !.n      = n]
    /\ steps' = steps + 1
    /\ UNCHANGED <<fd, fd_obs, hp, hp_obs, srv, srv_obs, loop>>

\* LightweightSeparator.reset
LSReset ==
    /\ steps < MaxSteps
    /\ ss' = LightReset(ss)
    /\ ss_obs' = [LightFresh(ss, ss_obs.total) EXCEPT !.op = "reset"]
    /\ steps' = steps + 1
    /\ UNCHANGED <<fd, fd_obs, hp, hp_obs, srv, srv_obs, loop>>

(***************************************************************************)
(* Server: observations, inputs, actions.  One action is one message       *)
(* handled by process_message, which awaits the handler and sends its      *)
(* reply.                                                                  *)
(***************************************************************************)
\* messages handled in one behaviour of the server
MaxMessages == 4

\* nothing handled yet.  open, last_failed and total are kept per session
\* kind: a start was handled and no stop since; the last chunk's inference
\* raised; the samples handed to the detector since the last start.
ServerFresh ==
    [op |-> "init", kind |-> "none", response |-> Ok("init", FALSE),
     prev_op |-> "init", prev_kind |-> "none", prev_response |-> Ok("init", FALSE),
     escaped |-> FALSE, invoked |-> FALSE, inferences |-> 0, failed |-> FALSE,
     sent |-> <<>>, after_failure |-> FALSE, n |-> 0,
     latency |-> NoLatency, backends |-> <<>>, mode |-> "none",
     open        |-> [k \in Kinds |-> FALSE],
     last_failed |-> [k \in Kinds |-> FALSE],
     total       |-> [k \in Kinds |-> 0]]

\* process_message, lines 631-670, for a message of type kind:op whose
\* handler did r and whose payload held n mono samples (frames).  The
\* actions below bind r to the one value the handler returns.
ProcessMessage(op, kind, r, n) ==
    /\ steps < MaxMessages
    /\ srv' = r.self
    /\ srv_obs' =
         [op |-> op, kind |-> kind, response |-> r.response,
          prev_op |-> srv_obs.op, prev_kind |-> srv_obs.kind,
          prev_response |-> srv_obs.response,
          escaped |-> r.escaped, invoked |-> r.invoked,
          inferences |-> r.inferences, failed |-> r.failed, sent |-> r.sent,
          after_failure |-> op = "push" /\ kind \in Kinds
                               /\ srv_obs.last_failed[kind],
          n |-> n, latency |-> r.latency, backends |-> r.backends,
          mode |-> r.mode,
          open |-> [k \in Kinds |->
                      IF k = kind /\ op \in {"start", "stop"} THEN op = "start"
                      ELSE srv_obs.open[k]],
          last_failed |-> [k \in Kinds |->
                             IF k = kind /\ op \in {"start", "stop", "push"}
                             THEN op = "push" /\ r.failed
                             ELSE srv_obs.last_failed[k]],
          total |-> [k \in Kinds |->
                       IF k # kind THEN srv_obs.total[k]
                       ELSE IF op = "start" THEN 0
                       ELSE IF r.invoked THEN srv_obs.total[k] + n
                       ELSE srv_obs.total[k]],
          before |-> srv]
    /\ steps' = steps + 1
    /\ UNCHANGED <<fd, fd_obs, hp, hp_obs, ss, ss_obs>>

\* run, lines 689-696, when messages are sent one at a time: a message is
\* read and handled at once
Serve(op, kind, r, n) == ProcessMessage(op, kind, r, n) /\ UNCHANGED loop

\* modes asked for by stream:start
StreamModes == {"full", "light"}

StreamStart(mode) ==
    \E r \in {HandleStreamStart(srv, mode)} : Serve("start", "stream", r, 0)

\* a stream:audio message with no audio, or with two stereo frames
StreamAudio(length, demucs) ==
    \E r \in {HandleStreamAudio(srv, length, srv_obs.total["stream"] + 1,
                                demucs, 30)} :
       Serve("push", "stream", r, length \div 2)

StreamStop == \E r \in {HandleStreamStop(srv)} : Serve("stop", "stream", r, 0)

PitchStart(mode) ==
    \E r \in {HandlePitchStart(srv, mode)} : Serve("start", "pitch", r, 0)

PitchStream(length, cnet, mnet) ==
    \E r \in {HandlePitchStream(srv, length, srv_obs.total["pitch"] + 1,
                                cnet, mnet, 20)} :
       Serve("push", "pitch", r, MonoLength(length))

PitchStop == \E r \in {HandlePitchStop(srv)} : Serve("stop", "pitch", r, 0)

PitchSetMode(mode) ==
    \E r \in {HandlePitchSetMode(srv, mode)} : Serve("set_mode", "pitch", r, 0)

\* analysis:use_separated belongs to no session kind
UseSeparated(enabled) ==
    \E r \in {HandleUseSeparated(srv, enabled)} :
       Serve("use_separated", "analysis", r, 0)

FormantStart ==
    \E r \in {HandleFormantStart(srv)} : Serve("start", "formant", r, 0)

FormantStream(length, amp, praat) ==
    \E r \in {HandleFormantStream(srv, length, srv_obs.total["formant"],
                                  amp, praat)} :
       Serve("push", "formant", r, MonoLength(length))

FormantStop ==
    \E r \in {HandleFormantStop(srv)} : Serve("stop", "formant", r, 0)

(***************************************************************************)
(* AnalysisServer.run: the message loop.  loop.pipe holds the lines the    *)
(* client has written to stdin and run() has not read yet, loop.running    *)
(* the messages whose handler was entered and has not returned,            *)
(* loop.log the events <<what, id, kind, op>> in the order they happened.  *)
(***************************************************************************)
\* messages written to the server in one behaviour of the loop
MaxArrivals == 3

\* the loop as run() enters it
LoopFresh == [pipe |-> <<>>, running |-> {}, arrived |-> 0, log |-> <<>>]

Event(what, msg) == <<what, msg.id, msg.kind, msg.op>>

\* the client writes one more line; nothing in the server takes part
Arrive(kind, op) ==
    /\ loop.arrived < MaxArrivals
    /\ LET msg == [id |-> loop.arrived + 1, kind |-> kind, op |-> op]
       IN  loop' = [loop EXCEPT !.pipe    = Append(@, msg),
                                !.arrived = @ + 1,
                                !.log     = Append(@, Event("arrive", msg))]
    /\ UNCHANGED <<fd, fd_obs, hp, hp_obs, ss, ss_obs, srv, srv_obs, steps>>

\* process_message, lines 637-639: is there a handler for the message type?
\* (every start, chunk and stop type of the three sessions has one)
Known(msg) == msg.kind \in Kinds

\* a loop that reads the next line while a handler is still running
LoopFreeAlways(self) == TRUE

\* run, line 696: `await self.process_message(message)`; the loop comes
\* back to readline only when the handler of the last message has returned
LoopFree(self) == self.running = {}

\* run, lines 691-696: readline returns the oldest line and the handler of
\* its message is entered
LoopRead ==
    /\ LoopFree(loop)
    /\ loop.pipe # <<>>
    /\ LET msg == Head(loop.pipe)
       IN  /\ loop' = [loop EXCEPT !.pipe    = Tail(@),
                                   !.running = @ \cup {msg},
                                   !.log     = Append(@, Event("begin", msg))]
           /\ srv' = IF Known(msg)
                     THEN [srv EXCEPT !.active_tasks = @ \cup {msg.id}]
                     ELSE srv
    /\ UNCHANGED <<fd, fd_obs, hp, hp_obs, ss, ss_obs, srv_obs, steps>>

\* the handler of a message in the loop when nothing fails: a start of the
\* session ('full' separation, 'auto' pitch), a chunk of two frames on which
\* the backend succeeds, or a stop.  A message of unknown type has no
\* handler and leaves the server as it is.
HandlerOf(self, msg, totals) ==
    IF ~Known(msg) THEN Refused(self, "Unknown message type")
    ELSE IF msg.op = "start"
    THEN IF msg.kind = "stream" THEN HandleStreamStart(self, "full")
         ELSE IF msg.kind = "pitch" THEN HandlePitchStart(self, "auto")
         ELSE HandleFormantStart(self)
    ELSE IF msg.op = "stop"
    THEN IF msg.kind = "stream" THEN HandleStreamStop(self)
         ELSE IF msg.kind = "pitch" THEN HandlePitchStop(self)
         ELSE HandleFormantStop(self)
    ELSE IF msg.kind = "stream"
         THEN HandleStreamAudio(self, 4, totals["stream"] + 1,
                                [raised |-> FALSE, vocals |-> <<5, 5>>], 30)
         ELSE IF msg.kind = "pitch"
         THEN HandlePitchStream(self, 2048, totals["pitch"] + 1,
                                [raised |-> FALSE, freq |-> 220, conf |-> 9],
                                [raised |-> TRUE], 20)
         ELSE HandleFormantStream(self, 2, totals["formant"], 1, PraatTypical)

\* can the handler of the message find the Demucs model failing to load?
\* stream:start builds the separator; a chunk builds it on use (inside the
\* try block of handle_stream_audio) when a failed start left none.
LoadCanFail(self, msg) ==
    /\ msg.kind = "stream" /\ self.CUDA_AVAILABLE
    /\ \/ msg.op = "start"
       \/ /\ msg.op = "push" /\ StreamActive(self)
          /\ self._streaming_separator.absent /\ self._stream_mode = "full"

\* the handler of such a message when the load fails
HandlerLoadFailed(self, msg) ==
    IF msg.op = "start" THEN HandleStreamStartRaised(self, "full")
    ELSE Refused(self, "exception")

\* a dispatcher whose except branch only logs the exception
RepliesSilentOnError(msg, r) ==
    [i \in 1..Len(r.sent) |-> Event("data", msg)] \o
    (IF r.escaped THEN <<>>
     ELSE << Event(IF Known(msg) THEN "result" ELSE "error", msg) >>)

\* process_message, lines 640-678: the messages written to stdout for one
\* request whose handler did r: the data messages the handler sent, then
\* the handler's result, or an 'error' message when the handler raised or
\* the type has no handler
Replies(msg, r) ==
    [i \in 1..Len(r.sent) |-> Event("data", msg)] \o
    << Event(IF Known(msg) /\ ~r.escaped THEN "result" ELSE "error", msg) >>

\* process_message, lines 642-678: the handler of a running message has
\* done r (returned or raised), the reply is sent and the task id is
\* dropped (finally)
Complete(msg, r) ==
    /\ ProcessMessage(msg.op, msg.kind,
                      [r EXCEPT !.self.active_tasks = @ \ {msg.id}],
                      IF msg.op # "push" THEN 0
                      ELSE IF msg.kind = "pitch" THEN 1024 ELSE 2)
    /\ loop' = [loop EXCEPT !.running = @ \ {msg},
                            !.log     = @ \o Replies(msg, r)
                                          \o << Event("end", msg) >>]

\* the handler of a running message goes through
LoopComplete ==
    \E msg \in loop.running :
       \E r \in {HandlerOf(srv, msg, srv_obs.total)} : Complete(msg, r)

\* the handler of a running message finds the Demucs model failing to load
LoopCompleteLoadFailed ==
    \E msg \in loop.running :
       /\ LoadCanFail(srv, msg)
       /\ \E r \in {HandlerLoadFailed(srv, msg)} : Complete(msg, r)

(***************************************************************************)
(* Initial states and specifications.  Each specification explores one     *)
(* object, over every configuration within the bounds; the other objects   *)
(* stay as constructed with the defaults.                                  *)
(***************************************************************************)
FDIdle ==
    /\ fd = FormantDetector(1, 1)
    /\ fd_obs = [FormantFresh EXCEPT !.before = fd]

HPIdle ==
    /\ hp = HybridDetector("auto", Present(CrepeDetector(TRUE)),
                           Present(MelodiaDetector(TRUE)))
    /\ hp_obs = [total |-> 0, op |-> "init", result |-> NoResult,
                 calls |-> <<>>, before |-> hp, n |-> 0, tag |-> "None"]

SSIdle ==
    /\ ss = Separator(2, 50)
    /\ ss_obs = [total |-> 0, op |-> "init",
                 result |-> [none |-> TRUE, raised |-> FALSE], ran |-> FALSE,
                 model_input |-> <<>>, vocals |-> <<>>, blended |-> <<>>,
                 before |-> ss]

SrvIdle ==
    /\ srv = AnalysisServer(TRUE)
    /\ srv_obs = ServerFresh @@ [before |-> srv]
    /\ loop = LoopFresh

\* the formant detector, every window/hop configuration within the bounds
InitFormant ==
    /\ \E w \in 1..MaxWindow : \E h \in 0..(w + 1) : fd = FormantDetector(w, h)
    /\ fd_obs = [FormantFresh EXCEPT !.before = fd]
    /\ HPIdle /\ SSIdle /\ SrvIdle
    /\ steps = 0

\* chunks of every length from empty to longer than the buffer, loud and
\* analysed without error; or one window of silence on which an analysis,
\* if the gate still lets it run, fails; or a reset
NextFormant ==
    \/ \E n \in 0..(fd.buffer_size + 1) : FDProcessChunk(n, 1, PraatTypical)
    \/ FDProcessChunk(fd.window_samples, 0, PraatRaised)
    \/ FDReset

SpecFormant == InitFormant /\ [][NextFormant]_vars

\* the formant detector with W = 1024 and H = 480
InitWindow1024 ==
    /\ fd = FormantDetector(1024, 480)
    /\ fd_obs = [FormantFresh EXCEPT !.before = fd]
    /\ HPIdle /\ SSIdle /\ SrvIdle
    /\ steps = 0

NextWindow1024 ==
    \/ \E n \in {0, 480, 2000, 4000}, amp \in {0, 1} :
          FDProcessChunk(n, amp, PraatTypical)
    \/ FDReset

SpecWindow1024 == InitWindow1024 /\ [][NextWindow1024]_vars

\* at most MaxEvaluations windows are evaluated while the gate is explored
MaxEvaluations == 5

\* the formant detector with a window and a hop of one sample: every pushed
\* chunk is one evaluated window
InitGate ==
    /\ fd = FormantDetector(1, 1)
    /\ fd_obs = [FormantFresh EXCEPT !.before = fd]
    /\ HPIdle /\ SSIdle /\ SrvIdle
    /\ steps = 0

\* loud and silent windows, every backend outcome on each; or a reset
NextGate ==
    \/ \E amp \in {0, 1}, praat \in PraatOutcomes :
          FDEvaluate(amp, praat, MaxEvaluations)
    \/ FDReset

SpecGate == InitGate /\ [][NextGate]_vars

\* a run of evaluations is followed up to MaxRun steps
MaxRun == 100

\* a loud window, analysed with some formants found, while the step bound
\* allows
VoicedWindow ==
    \E praat \in {PraatTypical, PraatPartial} : FDEvaluate(1, praat, MaxSteps)

\* a silent window, on which Praat finds nothing if the gate still lets the
\* analysis run
SilentWindow == FDEvaluate(0, PraatUndefined, MaxRun)

NextDecay == VoicedWindow \/ SilentWindow

\* a chunk was pushed: every step of NextDecay adds one to the step count,
\* and a silent window can be pushed whenever the count is below MaxRun
ChunkPushed == steps < MaxRun /\ steps' = steps + 1

\* the stream falls silent after at most MaxSteps loud windows, and the
\* caller keeps pushing chunks for as long as the run is followed
SpecDecay == InitGate /\ [][NextDecay]_vars /\ WF_steps(ChunkPushed)

\* the adaptive detector (window and hop of one sample) after the earlier
\* observations
InitAdaptive ==
    /\ \E pitches \in EarlierPitches : fd = Observed(AdaptiveDetector(1, 1), pitches)
    /\ fd_obs = AdaptiveFresh @@ [before |-> fd]
    /\ HPIdle /\ SSIdle /\ SrvIdle
    /\ steps = 0

NextAdaptive ==
    \/ \E pitch_hz \in PitchInputs : ADSetPitch(pitch_hz)
    \/ \E amp \in {0, 1} : ADProcessChunk(amp, PraatTypical)
    \/ ADReset

SpecAdaptive == InitAdaptive /\ [][NextAdaptive]_vars

\* the server as constructed, with or without CUDA
InitServer ==
    /\ \E cuda \in BOOLEAN : srv = AnalysisServer(cuda)
    /\ srv_obs = ServerFresh @@ [before |-> srv]
    /\ loop = LoopFresh
    /\ FDIdle /\ HPIdle /\ SSIdle
    /\ steps = 0

\* any streaming message at any time: starts, stops, and chunks on which
\* the backend succeeds or raises
NextServer ==
    \/ \E mode \in StreamModes : StreamStart(mode)
    \/ \E demucs \in DemucsOutcomes(2) \ {[raised |-> FALSE, vocals |-> <<3, 4>>]} :
          StreamAudio(4, demucs)
    \/ StreamAudio(0, [raised |-> TRUE])
    \/ StreamStop
    \/ PitchStart("auto")
    \/ \E cnet \in {[raised |-> TRUE], [raised |-> FALSE, freq |-> 220, conf |-> 9]} :
          PitchStream(2048, cnet, [raised |-> TRUE])
    \/ PitchStop
    \/ FormantStart
    \/ \E praat \in {PraatTypical, PraatRaised} : FormantStream(2, 1, praat)
    \/ FormantStop

SpecServer == InitServer /\ [][NextServer]_vars

\* every message of the three sessions at any time, with the mode changes
\* and the analysis:use_separated switch; the backends succeed
NextSessions ==
    \/ \E mode \in StreamModes : StreamStart(mode)
    \/ StreamAudio(4, [raised |-> FALSE, vocals |-> <<5, 5>>])
    \/ StreamStop
    \/ \E mode \in {"auto", "melodia", "bogus"} : PitchStart(mode)
    \/ \E length \in {2048, 8192} :
          PitchStream(length, [raised |-> FALSE, freq |-> 220, conf |-> 3],
                      [raised |-> FALSE, frames |-> 1, valid |-> TRUE,
                       freq |-> 440, conf |-> 8])
    \/ \E mode \in PitchModes \cup {"bogus"} : PitchSetMode(mode)
    \/ PitchStop
    \/ FormantStart
    \/ FormantStream(2, 1, PraatTypical)
    \/ FormantStop
    \/ \E enabled \in BOOLEAN : UseSeparated(enabled)

SpecSessions == InitServer /\ [][NextSessions]_vars

\* the server with its three sessions started, and the loop waiting
InitLoop ==
    /\ \E cuda \in BOOLEAN :
          srv = HandleFormantStart(
                   HandlePitchStart(
                      HandleStreamStart(AnalysisServer(cuda), "full").self,
                      "auto").self).self
    /\ srv_obs = [ServerFresh EXCEPT !.open = [k \in Kinds |-> TRUE]]
                    @@ [before |-> srv]
    /\ loop = LoopFresh
    /\ FDIdle /\ HPIdle /\ SSIdle
    /\ steps = 0

\* chunks and stops of the three sessions arrive at any time; the loop
\* reads and handles them
NextLoop ==
    \/ \E kind \in Kinds, op \in {"push", "stop"} : Arrive(kind, op)
    \/ LoopRead
    \/ LoopComplete

SpecLoop == InitLoop /\ [][NextLoop]_vars

\* message types written to a fresh server while the dispatcher is explored:
\* the separation session, a pitch session, and a type without handler
DispatchTypes ==
    {<<"stream", "start">>, <<"stream", "push">>,
     <<"pitch", "start">>, <<"pitch", "push">>, <<"bogus", "push">>}

NextDispatch ==
    \/ \E t \in DispatchTypes : Arrive(t[1], t[2])
    \/ LoopRead
    \/ LoopComplete
    \/ LoopCompleteLoadFailed

SpecDispatch == InitServer /\ [][NextDispatch]_vars

\* the hybrid pitch detector, every mode and every backend availability
InitPitch ==
    /\ \E m \in PitchModes, c \in CrepeStates, d \in MelodiaStates :
          hp = HybridDetector(m, c, d)
    /\ hp_obs = [total |-> 0, op |-> "init", result |-> NoResult,
                 calls |-> <<>>, before |-> hp, n |-> 0, tag |-> "None"]
    /\ FDIdle /\ SSIdle /\ SrvIdle
    /\ steps = 0

NextPitch ==
    \/ \E n \in PitchChunkLens, cnet \in CrepeOutcomes, mnet \in MelodiaOutcomes,
          latency \in PitchLatencies :
          HPProcessChunk(n, cnet, mnet, latency)
    \/ \E mode \in PitchModes \cup {"bogus"} : HPSetMode(mode)
    \/ HPReset

SpecPitch == InitPitch /\ [][NextPitch]_vars

\* the separator, every chunk size within the bounds and every overlap
InitSeparator ==
    /\ \E c \in 1..MaxChunkSamples, p \in OverlapPercents : ss = Separator(c, p)
    /\ ss_obs = [total |-> 0, op |-> "init",
                 result |-> [none |-> TRUE, raised |-> FALSE], ran |-> FALSE,
                 model_input |-> <<>>, vocals |-> <<>>, blended |-> <<>>,
                 before |-> ss]
    /\ FDIdle /\ HPIdle /\ SrvIdle
    /\ steps = 0

NextSeparator ==
    \/ \E length \in {1} \cup {2 * n : n \in 0..(ss.chunk_samples + 1)},
          demucs \in DemucsOutcomes(ss.chunk_samples),
          process_time \in SeparatorLatencies :
          SSProcessChunk(length, demucs, process_time)
    \/ SSReset

SpecSeparator == InitSeparator /\ [][NextSeparator]_vars

\* the lightweight separator, every chunk size within the bounds
InitLight ==
    /\ \E c \in 1..MaxLightChunk : ss = LightSeparator(c)
    /\ ss_obs = LightFresh(ss, 0)
    /\ FDIdle /\ HPIdle /\ SrvIdle
    /\ steps = 0

\* arrays of every length from empty to more than two blocks of stereo, or a
\* reset
NextLight ==
    \/ \E length \in 0..(4 * ss.chunk_samples + 1) : LSProcessChunk(length)
    \/ LSReset

SpecLight == InitLight /\ [][NextLight]_vars

(***************************************************************************)
(* Properties of the formant detector's accumulator.                       *)
(***************************************************************************)
\* the last operation on the formant detector was a process_chunk call
FDCalled == fd_obs.called /\ Len(fd_obs.lens) >= 1

\* that call returned a result
FDEmitted == FDCalled /\ ~fd_obs.result.none

\* C1: process_chunk returns a result if and only if, with the chunk
\* appended, buffer_pos >= window_samples and the counter incremented by the
\* chunk length is >= hop_samples; the counter is 0 after an emission and
\* keeps its incremented value otherwise.
C1_EmitIffWindowAndHop ==
    FDCalled =>
      LET counted == fd_obs.before.samples_since_analysis + fd_obs.n
      IN  /\ ~fd_obs.result.none <=>
                (fd.buffer_pos >= fd.window_samples /\ counted >= fd.hop_samples)
          /\ fd.samples_since_analysis =
                IF fd_obs.result.none THEN counted ELSE 0

\* a call that emitted with the counter exactly at the hop, in a buffer
\* that had to shift
C1_Witness ==
    /\ FDEmitted
    /\ fd.hop_samples >= 1
    /\ fd_obs.before.samples_since_analysis + fd_obs.n = fd.hop_samples
    /\ fd_obs.before.buffer_pos + fd_obs.n > fd.buffer_size

\* C2: whatever chunks are pushed and whenever reset() is called,
\* 0 <= buffer_pos <= buffer_size and the buffer holds at most buffer_size
\* samples.
C2_BufferBounded ==
    /\ 0 <= fd.buffer_pos
    /\ fd.buffer_pos <= fd.buffer_size
    /\ Len(fd.audio_buffer) <= fd.buffer_size

\* a chunk longer than the capacity pushed into a buffer that held samples
C2_Witness ==
    /\ FDCalled
    /\ fd_obs.n > fd.buffer_size
    /\ fd_obs.before.buffer_pos > 0
    /\ fd.buffer_pos = fd.buffer_size

\* C3: buffer_pos = min(samples pushed, buffer_size); the samples before
\* buffer_pos are, in order, the last buffer_pos samples pushed; an emitted
\* window is the last window_samples samples pushed.
C3_MostRecentSamples ==
    /\ fd.buffer_pos = Min(fd_obs.total, fd.buffer_size)
    /\ \A i \in 1..fd.buffer_pos :
          fd.audio_buffer[i][1] = fd_obs.total - fd.buffer_pos + i
    /\ FDEmitted =>
          /\ Len(fd_obs.window) = fd.window_samples
          /\ \A i \in 1..fd.window_samples :
                fd_obs.window[i][1] = fd_obs.total - fd.window_samples + i

\* a window emitted right after an overflowing append dropped old samples
C3_Witness ==
    /\ FDEmitted
    /\ fd_obs.n >= 1
    /\ fd_obs.n < fd.buffer_size
    /\ fd_obs.before.buffer_pos + fd_obs.n > fd.buffer_size
    /\ fd.buffer_pos > fd.window_samples

\* C4 as stated: W = 1024, H = 480, fresh accumulator: one push of 2000
\* samples yields a window; a push of 480 yields none and a second push of
\* 480 yields one.
C4_AsStated ==
    (fd.window_samples = 1024 /\ fd.hop_samples = 480) =>
      /\ fd_obs.lens = <<2000>> => fd_obs.emits = <<TRUE>>
      /\ fd_obs.lens = <<480>> => fd_obs.emits = <<FALSE>>
      /\ fd_obs.lens = <<480, 480>> => fd_obs.emits = <<FALSE, TRUE>>

\* C4 amended: one push of 2000 samples yields a window; pushes of 480
\* samples yield no window after the first and none after the second (960
\* samples are fewer than a window), and one window after the third.
C4_ThirdPushEmits ==
    (fd.window_samples = 1024 /\ fd.hop_samples = 480) =>
      /\ fd_obs.lens = <<2000>> => fd_obs.emits = <<TRUE>>
      /\ fd_obs.lens = <<480>> => fd_obs.emits = <<FALSE>>
      /\ fd_obs.lens = <<480, 480>> => fd_obs.emits = <<FALSE, FALSE>>
      /\ fd_obs.lens = <<480, 480, 480>> => fd_obs.emits = <<FALSE, FALSE, TRUE>>

\* three pushes of 480 samples into the fresh accumulator, the third emitting
C4_Witness ==
    /\ fd.window_samples = 1024 /\ fd.hop_samples = 480
    /\ fd_obs.lens = <<480, 480, 480>>
    /\ fd_obs.emits[3]

(***************************************************************************)
(* Properties of the hybrid pitch detector.                                *)
(***************************************************************************)
\* the last operation on the pitch detector was process_chunk in mode m
HPCalledIn(m) == hp_obs.op = "process_chunk" /\ hp_obs.before.mode = m

\* the last process_chunk ran no inference
HPNoInference == \A i \in 1..Len(hp_obs.calls) : ~hp_obs.calls[i].ran

\* C5: 'auto' mode: when the primary returns a result with confidence below
\* the threshold (0.6) and the secondary returns a result with higher
\* confidence, process_chunk returns the secondary's estimate, tagged
\* 'melodia', and last_algorithm becomes 'melodia'.
C5_FallbackToSecondary ==
    ( /\ HPCalledIn("auto")
      /\ hp.confidence_threshold = 6
      /\ Len(hp_obs.calls) = 2
      /\ hp_obs.calls[1].backend = "crepe"
      /\ hp_obs.calls[2].backend = "melodia"
      /\ ~hp_obs.calls[1].result.none
      /\ ~hp_obs.calls[2].result.none
      /\ hp_obs.calls[1].result.confidence < 6
      /\ hp_obs.calls[2].result.confidence > hp_obs.calls[1].result.confidence )
    => /\ hp_obs.result = hp_obs.calls[2].result
       /\ hp_obs.result.algorithm = "melodia"
       /\ hp.last_algorithm = "melodia"

\* primary at confidence 0.3, secondary at 0.8, on the same chunk
C5_Witness ==
    /\ HPCalledIn("auto")
    /\ Len(hp_obs.calls) = 2
    /\ ~hp_obs.calls[1].result.none /\ hp_obs.calls[1].result.confidence = 3
    /\ ~hp_obs.calls[2].result.none /\ hp_obs.calls[2].result.confidence = 8
    /\ hp_obs.result.frequency = 440

\* C6: 'auto' mode, both backends constructed: the primary is called exactly
\* once and first; the secondary is called if and only if the primary
\* returned a result with confidence below the threshold, and is otherwise
\* left untouched; the primary's result is kept unless the secondary returned
\* a result of strictly higher confidence.
C6_AutoPolicy ==
    ( /\ HPCalledIn("auto")
      /\ ~hp_obs.before._crepe.absent
      /\ ~hp_obs.before._melodia.absent )
    => LET calls   == hp_obs.calls
           primary == calls[1].result
           low     == ~primary.none
                      /\ primary.confidence < hp.confidence_threshold
       IN  /\ Len(calls) >= 1
           /\ calls[1].backend = "crepe"
           /\ \A i \in 2..Len(calls) : calls[i].backend # "crepe"
           /\ Len(calls) <= 2
           /\ (Len(calls) = 2) <=> low
           /\ Len(calls) = 2 => calls[2].backend = "melodia"
           /\ Len(calls) = 1 => hp._melodia = hp_obs.before._melodia
           /\ hp_obs.result =
                 IF /\ Len(calls) = 2
                    /\ ~calls[2].result.none
                    /\ calls[2].result.confidence > primary.confidence
                 THEN calls[2].result
                 ELSE primary

\* the primary answered exactly at the threshold: the secondary, which holds
\* buffered audio, is not called
C6_Witness ==
    /\ HPCalledIn("auto")
    /\ ~hp_obs.before._crepe.absent
    /\ ~hp_obs.before._melodia.absent
    /\ hp_obs.before._melodia.obj._loaded
    /\ hp_obs.before._melodia.obj.buffer # <<>>
    /\ Len(hp_obs.calls) = 1
    /\ ~hp_obs.calls[1].result.none
    /\ hp_obs.calls[1].result.confidence = hp.confidence_threshold

\* C7: mode 'crepe' or 'melodia': only the selected backend is called, once,
\* and the other backend is left unchanged; when the selected backend is
\* missing or its model is not loaded, no inference runs, no buffer changes
\* and process_chunk returns None.
C7_SingleBackendModes ==
    \A m \in {"crepe", "melodia"} :
      HPCalledIn(m) =>
        LET selected == IF m = "crepe" THEN hp_obs.before._crepe
                        ELSE hp_obs.before._melodia
            loaded   == /\ ~selected.absent
                        /\ IF m = "crepe" THEN selected.obj._model_loaded
                           ELSE selected.obj._loaded
        IN  /\ \A i \in 1..Len(hp_obs.calls) : hp_obs.calls[i].backend = m
            /\ IF m = "crepe" THEN hp._melodia = hp_obs.before._melodia
               ELSE hp._crepe = hp_obs.before._crepe
            /\ ~selected.absent => Len(hp_obs.calls) = 1
            /\ selected.absent => hp_obs.calls = <<>>
            /\ ~loaded => /\ HPNoInference
                          /\ hp_obs.result.none
                          /\ hp._crepe = hp_obs.before._crepe
                          /\ hp._melodia = hp_obs.before._melodia

\* mode 'crepe' with no crepe backend while Melodia is loaded: a chunk long
\* enough for both backends is pushed and nothing is called
C7_Witness ==
    /\ HPCalledIn("crepe")
    /\ hp_obs.before._crepe.absent
    /\ ~hp_obs.before._melodia.absent
    /\ hp_obs.before._melodia.obj._loaded
    /\ hp_obs.n >= 4096
    /\ hp_obs.calls = <<>>
    /\ hp_obs.result.none

\* C8: 'auto' mode, the primary failed to initialise (no backend object, or
\* its model did not load) and the secondary is loaded: the primary runs no
\* inference and the chunk is handed to the secondary.
C8_FailedPrimaryFallsBack ==
    ( /\ HPCalledIn("auto")
      /\ hp_obs.n >= 1
      /\ \/ hp_obs.before._crepe.absent
         \/ ~hp_obs.before._crepe.obj._model_loaded
      /\ ~hp_obs.before._melodia.absent
      /\ hp_obs.before._melodia.obj._loaded )
    => /\ \A i \in 1..Len(hp_obs.calls) :
             hp_obs.calls[i].backend = "crepe" => ~hp_obs.calls[i].ran
       /\ \E i \in 1..Len(hp_obs.calls) : hp_obs.calls[i].backend = "melodia"

(***************************************************************************)
(* Properties of the streaming separator.                                  *)
(***************************************************************************)
\* the last operation on the separator returned a segment
SSReturned == ss_obs.op = "process_chunk" /\ ~ss_obs.result.none

\* C9: in every reachable state, for every configuration (overlap 0
\* included), the retained tail output_buffer holds exactly overlap_samples
\* = chunk_samples - hop_samples samples.
C9_TailLength ==
    /\ ss.overlap_samples = ss.chunk_samples - ss.hop_samples
    /\ Len(ss.output_buffer) = ss.overlap_samples

\* x is a mix w * a + (1 - w) * b of a and b with a weight w in [0, 1]
IsMixOf(x, a, b) ==
    /\ x[2] >= 1
    /\ \E k \in 0..x[2] : x[1] = a * (x[2] - k) + b * k

\* C10: a returned segment has exactly hop_samples samples: sample i is a
\* blend of the retained tail and the new segment while i lies in the
\* overlap region and is the new segment's sample i after it (blended ++
\* newSegment[overlap : hop + overlap], cut to hop_samples; newSegment[:hop]
\* when overlap_samples = 0).
C10_SegmentIsHopLong ==
    SSReturned =>
      LET out  == ss_obs.result.output
          new  == ss_obs.vocals
          tail == ss_obs.before.output_buffer
      IN  /\ Len(new) = ss.chunk_samples
          /\ Len(out) = ss.hop_samples
          /\ \A i \in 1..Len(out) :
                IF i <= ss.overlap_samples
                THEN IsMixOf(out[i], tail[i], new[i])
                ELSE out[i] = <<new[i], 1>>

\* a segment returned with overlap > hop > 0 from a non-constant signal,
\* the tail retained by an earlier call
C10_Witness ==
    /\ SSReturned
    /\ ss.hop_samples >= 1
    /\ ss.overlap_samples > ss.hop_samples
    /\ ss_obs.vocals[1] # ss_obs.vocals[2]
    /\ ss_obs.before.output_buffer[1] # 0

(***************************************************************************)
(* Properties of the formant detector's voice gate and smoother.           *)
(***************************************************************************)
\* the last process_chunk call evaluated a window on which voice was not
\* detected: no flag of the FIFO is true
FDUndetected ==
    /\ FDEmitted
    /\ \A i \in 1..Len(fd.voiced_history) : ~fd.voiced_history[i]

\* the last process_chunk call evaluated a window and invoked the backend
FDAnalysed == FDEmitted /\ fd_obs.invoked

\* C13: on every evaluated window the frame flag (rms > energy_threshold,
\* i.e. some sample of the window is loud) is appended to a FIFO that never
\* holds more than 3 flags, the oldest being evicted, and voice is detected
\* for that window (the backend is invoked instead of the decay path) if
\* and only if at least one flag now in the FIFO is true.
C13_VoiceGate ==
    /\ Len(fd.voiced_history) <= 3
    /\ FDEmitted =>
          LET flag  == \E i \in 1..Len(fd_obs.window) : fd_obs.window[i][2] = 1
              old   == fd_obs.before.voiced_history
              added == old \o <<flag>>
          IN  /\ fd.voiced_history =
                    IF Len(added) <= 3 THEN added
                    ELSE SubSeq(added, Len(added) - 2, Len(added))
              /\ fd_obs.invoked <=>
                    \E i \in 1..Len(fd.voiced_history) : fd.voiced_history[i]

\* a full FIFO whose only true flag is evicted by a silent window: the gate
\* closes on this window
C13_Witness ==
    /\ FDUndetected
    /\ fd_obs.before.voiced_history = <<TRUE, FALSE, FALSE>>
    /\ fd.voiced_history = <<FALSE, FALSE, FALSE>>

\* C14: on every evaluated window for which voice is not detected, the
\* backend is not invoked, every smoothed formant and bandwidth is multiplied
\* by 0.9 exactly once, and a result carrying F1..F4 and B1..B4 (the decayed
\* values) with detected = false is returned.
C14_UnvoicedDecays ==
    FDUndetected =>
      /\ ~fd_obs.invoked
      /\ \A k \in 1..4 :
            /\ fd.smoothed_formants[k] =
                  (fd_obs.before.smoothed_formants[k] * 9) \div 10
            /\ fd.smoothed_bandwidths[k] =
                  (fd_obs.before.smoothed_bandwidths[k] * 9) \div 10
      /\ ~fd_obs.result.none
      /\ DOMAIN fd_obs.result.F = 1..4
      /\ DOMAIN fd_obs.result.B = 1..4
      /\ fd_obs.result.F = fd.smoothed_formants
      /\ fd_obs.result.B = fd.smoothed_bandwidths
      /\ fd_obs.result.detected = FALSE

\* the gate closes on a detector that holds four formants and bandwidths:
\* all eight values shrink
C14_Witness ==
    /\ FDUndetected
    /\ \A k \in 1..4 :
          /\ fd_obs.before.smoothed_formants[k] > 0
          /\ fd.smoothed_formants[k] < fd_obs.before.smoothed_formants[k]
          /\ fd_obs.before.smoothed_bandwidths[k] > 0
          /\ fd.smoothed_bandwidths[k] < fd_obs.before.smoothed_bandwidths[k]

\* every smoothed formant and bandwidth of the detector is 0
FDAllZero ==
    \A k \in 1..4 : fd.smoothed_formants[k] = 0 /\ fd.smoothed_bandwidths[k] = 0

\* an evaluation with voice undetected leaves no smoothed value larger than
\* it was, nor negative
FDNonIncreasing ==
    FDUndetected =>
      \A k \in 1..4 :
        /\ 0 <= fd.smoothed_formants[k]
        /\ fd.smoothed_formants[k] <= fd_obs.before.smoothed_formants[k]
        /\ 0 <= fd.smoothed_bandwidths[k]
        /\ fd.smoothed_bandwidths[k] <= fd_obs.before.smoothed_bandwidths[k]

\* C15: decay monotonicity: over a run of consecutive evaluated windows with
\* voice undetected, each smoothed formant and bandwidth is non-increasing
\* from one evaluation to the next, and once voice is undetected and the
\* stream stays silent every one of them eventually reaches 0.
C15_DecayMonotoneToZero ==
    /\ []FDNonIncreasing
    /\ (FDUndetected ~> FDAllZero)
    /\ <>[]FDAllZero

\* the last smoothed value reaches 0 at the end of a run of more than 50
\* evaluations that started from an analysed loud window
C15_Witness ==
    /\ FDUndetected
    /\ Len(fd_obs.lens) > 50
    /\ fd_obs.emits[1] /\ fd_obs.emits[50]
    /\ \E k \in 1..4 : fd_obs.before.smoothed_formants[k] > 0
    /\ FDAllZero

\* the last call analysed a window and the backend returned raw values
FDRawReturned == FDAnalysed /\ ~fd_obs.praat.raised

\* after the last call every field of `smoothed` whose raw value is positive
\* is 0.7 * old + 0.3 * raw and every other field is as before
FDSmoothedPerField(smoothed, old, raw) ==
    \A k \in 1..4 :
      smoothed[k] = IF raw[k] > 0 THEN (7 * old[k] + 3 * raw[k]) \div 10
                    ELSE old[k]

\* C16 as stated: on a voiced window for which the backend returned raw
\* values, each formant/bandwidth field whose raw value is present and
\* positive becomes 0.7 * old + 0.3 * raw, and each field whose raw value is
\* absent, zero or NaN keeps its previous smoothed value.
C16_AsStated ==
    FDRawReturned =>
      /\ FDSmoothedPerField(fd.smoothed_formants,
                            fd_obs.before.smoothed_formants,
                            RawFormants(fd_obs.praat))
      /\ FDSmoothedPerField(fd.smoothed_bandwidths,
                            fd_obs.before.smoothed_bandwidths,
                            RawBandwidths(fd_obs.praat))

\* C16 amended: the per-field update of C16 is applied when the raw formants
\* pass _validate_formants (0 < F1 < F2 < F3, each inside its range, F4 zero
\* or inside its range); when they do not, every smoothed formant and
\* bandwidth keeps its previous value.  A raw formant that is NaN or not
\* positive counts as 0 and so does its bandwidth; a NaN bandwidth counts
\* as 0.
C16_SmoothedWhenValid ==
    FDRawReturned =>
      LET f  == [k \in 1..4 |->
                   IF ~fd_obs.praat.f[k].nan /\ fd_obs.praat.f[k].v > 0
                   THEN fd_obs.praat.f[k].v ELSE 0]
          b  == [k \in 1..4 |->
                   IF f[k] > 0 /\ ~fd_obs.praat.b[k].nan
                   THEN fd_obs.praat.b[k].v ELSE 0]
          ok == /\ 0 < f[1] /\ f[1] < f[2] /\ f[2] < f[3]
                /\ 100 < f[1] /\ f[1] < 1200
                /\ 500 < f[2] /\ f[2] < 3000
                /\ 1500 < f[3] /\ f[3] < 4500
                /\ (f[4] > 0 => (2500 < f[4] /\ f[4] < 5500))
      IN  IF ok
          THEN /\ FDSmoothedPerField(fd.smoothed_formants,
                                     fd_obs.before.smoothed_formants, f)
               /\ FDSmoothedPerField(fd.smoothed_bandwidths,
                                     fd_obs.before.smoothed_bandwidths, b)
          ELSE /\ fd.smoothed_formants = fd_obs.before.smoothed_formants
               /\ fd.smoothed_bandwidths = fd_obs.before.smoothed_bandwidths

\* a detector holding four formants analyses a window in which Praat finds
\* three: F1 moves towards its raw value, F4 and B2 are held
C16_Witness ==
    /\ FDRawReturned
    /\ fd_obs.praat = PraatPartial
    /\ fd_obs.before.smoothed_formants[1] = 150
    /\ fd.smoothed_formants[1] = 285
    /\ fd_obs.before.smoothed_formants[4] > 0
    /\ fd.smoothed_formants[4] = fd_obs.before.smoothed_formants[4]
    /\ fd_obs.before.smoothed_bandwidths[2] > 0
    /\ fd.smoothed_bandwidths[2] = fd_obs.before.smoothed_bandwidths[2]

\* C17: when the backend raises during a voiced window, process_chunk
\* catches the failure: the stored smoothed formants and bandwidths are
\* unchanged, and the returned record has detected = false with every one
\* of F1..F4 and B1..B4 equal to the stored smoothed value.
C17_FailureHoldsEstimates ==
    (FDAnalysed /\ fd_obs.praat.raised) =>
      /\ fd.smoothed_formants = fd_obs.before.smoothed_formants
      /\ fd.smoothed_bandwidths = fd_obs.before.smoothed_bandwidths
      /\ ~fd_obs.result.none
      /\ fd_obs.result.detected = FALSE
      /\ \A k \in 1..4 :
            /\ fd_obs.result.F[k] = fd.smoothed_formants[k]
            /\ fd_obs.result.B[k] = fd.smoothed_bandwidths[k]

\* C11 as stated: in the overlap region blended[i] = retainedTail[i] *
\* (1 - i/overlap) + newSegment[i] * (i/overlap) for every i in [0, overlap).
C11_AsStated ==
    SSReturned =>
      LET overlap == ss.overlap_samples
          new     == ss_obs.vocals
          tail    == ss_obs.before.output_buffer
      IN  /\ Len(ss_obs.blended) = overlap
          /\ \A i \in 0..(overlap - 1) :
                ss_obs.blended[i + 1][1] * overlap =
                  (tail[i + 1] * (overlap - i) + new[i + 1] * i)
                     * ss_obs.blended[i + 1][2]

\* C11 amended: blended[i] = retainedTail[i] * (1 - w) + newSegment[i] * w
\* with the fade-in weight w = i/(overlap - 1) for every i in [0, overlap)
\* when overlap >= 2 (the last blended sample is the new segment's), and
\* w = 0 when overlap = 1 (the blended sample is the retained tail's).
C11_FadeInReachesOne ==
    SSReturned =>
      LET overlap == ss.overlap_samples
          new     == ss_obs.vocals
          tail    == ss_obs.before.output_buffer
      IN  /\ Len(ss_obs.blended) = overlap
          /\ overlap = 1 => ss_obs.blended[1] = <<tail[1], 1>>
          /\ overlap >= 2 =>
                \A i \in 0..(overlap - 1) :
                   /\ ss_obs.blended[i + 1][2] >= 1
                   /\ ss_obs.blended[i + 1][1] * (overlap - 1) =
                        (tail[i + 1] * (overlap - 1 - i) + new[i + 1] * i)
                           * ss_obs.blended[i + 1][2]

\* a blend over three samples whose middle sample mixes a tail retained by
\* an earlier call with a different new sample, half and half
C11_Witness ==
    /\ SSReturned
    /\ ss.overlap_samples = 3
    /\ ss_obs.before.output_buffer[2] # 0
    /\ ss_obs.before.output_buffer[2] # ss_obs.vocals[2]
    /\ ss_obs.blended[2][1] * 2 =
          (ss_obs.before.output_buffer[2] + ss_obs.vocals[2]) * ss_obs.blended[2][2]

\* the retained tail and the first overlap_samples samples of the new segment
\* of the last call are all equal to v
SSConstantOverlap(v) ==
    /\ SSReturned
    /\ ss.overlap_samples >= 1
    /\ \A i \in 1..ss.overlap_samples :
          /\ ss_obs.before.output_buffer[i] = v
          /\ ss_obs.vocals[i] = v

\* C12: crossfade continuity: if the retained tail and the first
\* overlap_samples samples of the new segment are the same constant v, every
\* sample of the blended region, and every returned sample that lies in the
\* overlap region, equals v.
C12_CrossfadeContinuity ==
    \A v \in 0..1 :
      SSConstantOverlap(v) =>
        /\ \A i \in 1..ss.overlap_samples :
              /\ ss_obs.blended[i][2] >= 1
              /\ ss_obs.blended[i][1] = v * ss_obs.blended[i][2]
        /\ \A i \in 1..Min(ss.overlap_samples, ss.hop_samples) :
              /\ ss_obs.result.output[i][2] >= 1
              /\ ss_obs.result.output[i][1] = v * ss_obs.result.output[i][2]

\* a tail of ones retained by an earlier call blended over two samples with
\* a new segment of ones, one blended sample returned
C12_Witness ==
    /\ SSConstantOverlap(1)
    /\ ss.overlap_samples = 2
    /\ ss.hop_samples = 1
    /\ ss_obs.result.output = << <<1, 1>> >>

(***************************************************************************)
(* Properties of the server's streaming sessions.                          *)
(***************************************************************************)
\* the Active flag of the session of a kind
SrvActive(self, kind) ==
    CASE kind = "stream"  -> self._streaming_active
      [] kind = "pitch"   -> self._pitch_streaming_active
      [] kind = "formant" -> self._formant_streaming_active

\* the detector attribute of the session of a kind
SrvDetector(self, kind) ==
    CASE kind = "stream"  -> self._streaming_separator
      [] kind = "pitch"   -> self._streaming_pitch_detector
      [] kind = "formant" -> self._streaming_formant_detector

\* the last message handled was a chunk for a session of some kind
SrvPushed == srv_obs.op = "push"

\* C18: a backend failure while processing one chunk (separation, pitch or
\* formant) does not end the session: no exception leaves the push handler,
\* which replies with an error or with a processed status; the Active flag
\* stays true and the detector stays in place; the inference ran once, with
\* no retry; and the next chunk with audio pushed to that session, if its
\* inference succeeds, is handed to the detector and answered 'processed'.
C18_FailureKeepsSession ==
    /\ (SrvPushed /\ srv_obs.failed) =>
          /\ ~srv_obs.escaped
          /\ srv_obs.response.error \/ srv_obs.response.status = "processed"
          /\ SrvActive(srv, srv_obs.kind)
          /\ ~SrvDetector(srv, srv_obs.kind).absent
          /\ srv_obs.inferences = 1
          /\ srv = [srv_obs.before EXCEPT
                      ![IF srv_obs.kind = "stream" THEN "_streaming_separator"
                        ELSE IF srv_obs.kind = "pitch"
                        THEN "_streaming_pitch_detector"
                        ELSE "_streaming_formant_detector"] =
                          SrvDetector(srv, srv_obs.kind)]
    /\ (SrvPushed /\ srv_obs.after_failure /\ srv_obs.n > 0 /\ ~srv_obs.failed) =>
          /\ ~srv_obs.escaped
          /\ srv_obs.invoked
          /\ srv_obs.response = Ok("processed", srv_obs.sent = <<>>)
          /\ SrvActive(srv, srv_obs.kind)

\* Demucs raised on one chunk of an active separation stream and the next
\* chunk came back separated
C18_Witness ==
    /\ SrvPushed /\ srv_obs.kind = "stream"
    /\ srv_obs.after_failure
    /\ ~srv_obs.failed
    /\ srv_obs.inferences = 1
    /\ srv_obs.sent = <<"stream:vocals">>
    /\ srv_obs.response = Ok("processed", FALSE)

\* C19: for each stream kind, a chunk pushed while the session is not
\* Active (before any start, or after a stop and before the next start) is
\* answered with an error, reaches no detector and changes nothing in the
\* server or its detectors; a chunk reaches a detector only between a start
\* and the following stop; the Active flag is true exactly then.
C19_InactivePushRefused ==
    /\ \A k \in Kinds : SrvActive(srv, k) = srv_obs.open[k]
    /\ SrvPushed =>
          /\ srv_obs.invoked => srv_obs.open[srv_obs.kind]
          /\ ~srv_obs.open[srv_obs.kind] =>
                /\ srv_obs.response.error
                /\ ~srv_obs.invoked
                /\ srv_obs.inferences = 0
                /\ srv_obs.sent = <<>>
                /\ srv = srv_obs.before

\* a chunk pushed to a pitch session that was started and then stopped
C19_Witness ==
    /\ SrvPushed /\ srv_obs.kind = "pitch"
    /\ srv_obs.n > 0
    /\ srv_obs.prev_op = "stop" /\ srv_obs.prev_kind = "pitch"
    /\ ~srv._streaming_pitch_detector.absent
    /\ srv_obs.response.error

\* C20: stop is idempotent for every stream kind: a stop that directly
\* follows a stop of the same session replies 'stopped' as the first did
\* and leaves the server and its detectors exactly as the first left them;
\* a stop of a session that was never started replies 'stopped' too.
C20_StopIdempotent ==
    srv_obs.op = "stop" =>
      /\ srv_obs.response = Ok("stopped", FALSE)
      /\ ~srv_obs.escaped
      /\ ~SrvActive(srv, srv_obs.kind)
      /\ (srv_obs.prev_op = "stop" /\ srv_obs.prev_kind = srv_obs.kind) =>
            /\ srv_obs.prev_response = Ok("stopped", FALSE)
            /\ srv = srv_obs.before

\* a second stop of a separation stream whose first stop reset a separator
\* that held frames
C20_Witness ==
    /\ srv_obs.op = "stop" /\ srv_obs.kind = "stream"
    /\ srv_obs.prev_op = "stop" /\ srv_obs.prev_kind = "stream"
    /\ ~srv._streaming_separator.absent
    /\ srv._streaming_separator.obj.input_buffer = <<>>
    /\ srv_obs.total["stream"] > 0

(***************************************************************************)
(* Properties of the adaptive formant detector.                            *)
(***************************************************************************)
\* the last call was set_pitch with a positive pitch
ADObserved == fd_obs.op = "set_pitch" /\ fd_obs.pitch > 0

\* q < k and q = k for a rational q and an integer k
Below(q, k) == q[1] < k * q[2]

\* C29: after set_pitch recorded a positive pitch, the ceiling follows the
\* median m of the pitch history by the breakpoints m < 165 -> 5000,
\* 165 <= m <= 250 -> 5500, m > 250 -> 6000, and a backend invocation is
\* given the ceiling that the last set_pitch left.
C29_CeilingBreakpoints ==
    /\ ADObserved =>
          LET m == Median(fd.pitch_history)
          IN  /\ fd.current_pitch = m
              /\ Below(m, 165) => fd.max_formant_hz = 5000
              /\ (~Below(m, 165) /\ ~Above(m, 250)) => fd.max_formant_hz = 5500
              /\ Above(m, 250) => fd.max_formant_hz = 6000
    /\ (fd_obs.op = "process_chunk" /\ fd_obs.invoked) =>
          /\ fd_obs.ceiling = fd_obs.before.max_formant_hz
          /\ fd.max_formant_hz = fd_obs.before.max_formant_hz

\* C30: set_pitch with a non-positive pitch changes nothing of the
\* detector; the pitch history holds positive observations only, at most
\* 20 of them, and a positive observation is appended after the oldest one
\* was dropped from a full history.
C30_NonPositiveIgnored ==
    /\ (fd_obs.op = "set_pitch" /\ fd_obs.pitch <= 0) => fd = fd_obs.before
    /\ Len(fd.pitch_history) <= 20
    /\ \A i \in 1..Len(fd.pitch_history) : fd.pitch_history[i] > 0
    /\ ADObserved =>
          LET old == fd_obs.before.pitch_history
          IN  fd.pitch_history =
                 (IF Len(old) = 20 THEN Tail(old) ELSE old) \o <<fd_obs.pitch>>

\* a non-positive pitch was handed to a detector whose history is full and
\* has already dropped an observation
C30_Witness ==
    /\ fd_obs.op = "set_pitch"
    /\ fd_obs.pitch <= 0
    /\ fd_obs.evictions > 0
    /\ Len(fd.pitch_history) = 20
    /\ fd.max_formant_hz # DefaultMaxFormant

\* C21 (detector part): after reset the audio buffer is zeroed with the
\* write cursor at 0, the hop counter is 0, the smoothed estimates are 0,
\* the voiced-flag history and the pitch history of the controller are
\* empty.
C21_ResetClearsEverything ==
    fd_obs.op = "reset" =>
       /\ fd.audio_buffer = Zeros(fd.buffer_size)
       /\ fd.buffer_pos = 0
       /\ fd.samples_since_analysis = 0
       /\ \A k \in FormantKeys :
             fd.smoothed_formants[k] = 0 /\ fd.smoothed_bandwidths[k] = 0
       /\ fd.voiced_history = <<>>
       /\ fd.pitch_history = <<>>

(***************************************************************************)
(* Properties of the sessions: modes, start, latency, independence.        *)
(***************************************************************************)
\* the last message was pitch:set_mode
SrvModeSet == srv_obs.op = "set_mode" /\ srv_obs.kind = "pitch"

\* the last message was a pitch chunk that reached the detector
SrvPitchPushed == srv_obs.op = "push" /\ srv_obs.kind = "pitch" /\ srv_obs.invoked

\* C22: pitch:set_mode with a mode outside {auto, crepe, melodia} is answered
\* with an error and leaves the server's pitch mode and the detector (its
\* mode included) as they were.
C22_InvalidModeRejected ==
    (SrvModeSet /\ srv_obs.mode \notin {"auto", "crepe", "melodia"}) =>
       /\ srv_obs.response.error
       /\ srv._pitch_mode = srv_obs.before._pitch_mode
       /\ srv._streaming_pitch_detector = srv_obs.before._streaming_pitch_detector
       /\ srv = srv_obs.before

\* an unknown mode was refused while the session was active in a mode other
\* than the one it was constructed with
C22_Witness ==
    /\ SrvModeSet
    /\ srv_obs.mode = "bogus"
    /\ srv._pitch_streaming_active
    /\ ~srv._streaming_pitch_detector.absent
    /\ srv._streaming_pitch_detector.obj.mode = "crepe"
    /\ srv._pitch_mode = "crepe"

\* C23: a valid pitch:set_mode on an active session changes the mode and
\* nothing else (buffered audio, Active flag, every other attribute); a
\* pushed chunk is served by the backends of the mode in force, and
\* process_chunk leaves the mode as it was.
C23_ModeChangeOnly ==
    /\ (SrvModeSet /\ srv_obs.mode \in {"auto", "crepe", "melodia"}
          /\ srv_obs.before._pitch_streaming_active) =>
          /\ ~srv_obs.response.error
          /\ srv._pitch_streaming_active
          /\ ~srv_obs.before._streaming_pitch_detector.absent
          /\ srv = [srv_obs.before EXCEPT
                      !._pitch_mode = srv_obs.mode,
                      !._streaming_pitch_detector =
                          Present([@.obj EXCEPT !.mode = srv_obs.mode])]
    /\ SrvPitchPushed =>
          LET mode == srv_obs.before._streaming_pitch_detector.obj.mode
          IN  /\ srv._streaming_pitch_detector.obj.mode = mode
              /\ srv._pitch_mode = srv_obs.before._pitch_mode
              /\ mode = "crepe" => srv_obs.backends = <<"crepe">>
              /\ mode = "melodia" => srv_obs.backends = <<"melodia">>
              /\ mode = "auto" =>
                    srv_obs.backends \in {<<"crepe">>, <<"crepe", "melodia">>}

\* the chunk that follows a mode change to crepe is served by crepe alone,
\* while the audio Melodia had buffered before the change is still there
C23_Witness ==
    /\ SrvPitchPushed
    /\ srv_obs.prev_op = "set_mode"
    /\ srv_obs.prev_kind = "pitch"
    /\ ~srv_obs.prev_response.error
    /\ srv_obs.before._pitch_mode = "crepe"
    /\ srv_obs.before._streaming_pitch_detector.obj._melodia.obj.buffer # <<>>
    /\ srv_obs.backends = <<"crepe">>

\* the detector of a session kind is as constructed: no buffered audio, no
\* counted samples, no smoothed value, no history
SrvDetectorFresh(self, kind) ==
    IF kind = "stream"
    THEN LET d == self._streaming_separator.obj
         IN  /\ d.input_buffer = <<>>
             /\ IsDemucs(d) =>
                   /\ \A i \in 1..Len(d.output_buffer) : d.output_buffer[i] = 0
                   /\ d.samples_since_last_process = 0
                   /\ d.avg_latency_ms = 0
    ELSE IF kind = "pitch"
    THEN LET d == self._streaming_pitch_detector.obj
         IN  /\ d._crepe.obj.buffer = <<>>
             /\ d._melodia.obj.buffer = <<>>
             /\ d.avg_latency_ms = 0
             /\ d.last_algorithm = "None"
    ELSE LET d == self._streaming_formant_detector.obj
         IN  /\ d.audio_buffer = Zeros(d.buffer_size)
             /\ d.buffer_pos = 0
             /\ d.samples_since_analysis = 0
             /\ d.voiced_history = <<>>
             /\ \A k \in FormantKeys :
                   d.smoothed_formants[k] = 0 /\ d.smoothed_bandwidths[k] = 0

\* C24: after a start the session is Active and its detector is freshly
\* initialized, whatever the state before (idle, stopped, or active with
\* buffered audio).
C24_StartReinitializes ==
    (srv_obs.op = "start" /\ ~srv_obs.response.error) =>
       /\ SrvActive(srv, srv_obs.kind)
       /\ ~SrvDetector(srv, srv_obs.kind).absent
       /\ SrvDetectorFresh(srv, srv_obs.kind)

\* formant:start arrived on an active session whose detector held audio and
\* smoothed formants
C24_Witness ==
    /\ srv_obs.op = "start"
    /\ srv_obs.kind = "formant"
    /\ srv_obs.before._formant_streaming_active
    /\ ~srv_obs.before._streaming_formant_detector.absent
    /\ srv_obs.before._streaming_formant_detector.obj.buffer_pos > 0
    /\ srv_obs.before._streaming_formant_detector.obj.smoothed_formants[1] > 0

\* the buffering delay of a detector in ms: the samples it accumulates
\* before its first inference
StructuralDelayMs(kind, d) ==
    IF kind = "stream"
    THEN ((IF IsDemucs(d) THEN d.chunk_samples ELSE d.min_samples) * 1000)
            \div SampleRate
    ELSE IF kind = "pitch"
    THEN (Min(d._crepe.obj.min_samples, d._melodia.obj.min_samples) * 1000)
            \div SampleRate
    ELSE ((d.window_samples + d.hop_samples) * 1000) \div SampleRate

\* the moving average of processing time a detector keeps (none: 0)
AverageMs(d) == IF "avg_latency_ms" \in DOMAIN d THEN d.avg_latency_ms ELSE 0

\* C25: the latency in a start reply and in every data message is the
\* buffering delay of the stream plus its moving average of processing
\* time.
C25_LatencyIsDelayPlusAverage ==
    (srv_obs.kind \in Kinds /\ srv_obs.latency # NoLatency) =>
       LET d == SrvDetector(srv, srv_obs.kind).obj
       IN  srv_obs.latency = StructuralDelayMs(srv_obs.kind, d) + AverageMs(d)

\* what belongs to the session of one kind: its Active flag, its mode and
\* its detector
SrvSession(self, kind) ==
    IF kind = "stream"
    THEN <<self._streaming_active, self._stream_mode, self._streaming_separator>>
    ELSE IF kind = "pitch"
    THEN <<self._pitch_streaming_active, self._pitch_mode,
           self._streaming_pitch_detector>>
    ELSE <<self._formant_streaming_active, "none",
           self._streaming_formant_detector>>

LoopAt(what, id) == {i \in 1..Len(loop.log) : loop.log[i][1] = what /\ loop.log[i][2] = id}

\* the chunk messages of one session that were written so far
LoopChunks(kind) ==
    {i \in 1..Len(loop.log) :
        loop.log[i][1] = "arrive" /\ loop.log[i][3] = kind /\ loop.log[i][4] = "push"}

\* C26: while the handler of one session's chunk is inside its backend call,
\* a chunk of another session that is next in the pipe can be taken up: the
\* loop can read it and enter its handler.
C26_OtherSessionNotBlocked ==
    \A msg \in loop.running :
       (/\ msg.op = "push"
        /\ SrvActive(srv, msg.kind)
        /\ loop.pipe # <<>>
        /\ Head(loop.pipe).op = "push"
        /\ Head(loop.pipe).kind # msg.kind) => ENABLED LoopRead

\* C27: the chunks of one session are handled one at a time and in the order
\* they arrived: at most one handler of the session is running, and the
\* handler of a chunk is entered only after the handler of every chunk of
\* the session that arrived before it has returned.
C27_InOrderOneAtATime ==
    \A kind \in Kinds :
       /\ Cardinality({msg \in loop.running : msg.kind = kind}) <= 1
       /\ \A i, j \in LoopChunks(kind) :
             LET a == loop.log[i][2]
                 b == loop.log[j][2]
             IN  (i < j /\ LoopAt("begin", b) # {}) =>
                    /\ LoopAt("end", a) # {}
                    /\ \A e \in LoopAt("end", a), s \in LoopAt("begin", b) : e < s

\* two chunks of the pitch session were waiting in the pipe together while
\* a chunk of another session was being handled, and both have been handled
C27_Witness ==
    \E i, j \in LoopChunks("pitch") :
       /\ i < j
       /\ LoopAt("end", loop.log[j][2]) # {}
       /\ \E b \in 1..Len(loop.log) :
             /\ loop.log[b][1] = "begin"
             /\ loop.log[b][3] # "pitch"
             /\ loop.log[b][4] = "push"
             /\ i < b /\ j < b
             /\ \A s \in LoopAt("begin", loop.log[i][2]) : b < s

(***************************************************************************)
(* Properties of the pitch backends' buffers and of the statistics.        *)
(***************************************************************************)
\* C31: 'auto' mode: whenever the secondary backend is invoked for a chunk
\* and runs its analysis, the samples it analyses are the samples the
\* primary analysed for that chunk.
C31_SameWindowCompared ==
    ( /\ HPCalledIn("auto")
      /\ Len(hp_obs.calls) = 2
      /\ hp_obs.calls[1].ran
      /\ hp_obs.calls[2].ran )
    => hp_obs.calls[2].seen = hp_obs.calls[1].seen

\* C32: last_algorithm is the algorithm tag of the most recent non-empty
\* result returned by process_chunk ("None" before the first one); calls
\* that return no result, set_mode and reset leave it as it was.
C32_LastAlgorithmTracksResults ==
    /\ hp.last_algorithm = hp_obs.tag
    /\ hp_obs.op = "init" => hp.last_algorithm = "None"
    /\ (hp_obs.op = "process_chunk" /\ ~hp_obs.result.none)
          => hp.last_algorithm = hp_obs.result.algorithm
    /\ ( \/ hp_obs.op \in {"set_mode", "reset"}
         \/ hp_obs.op = "process_chunk" /\ hp_obs.result.none )
          => hp.last_algorithm = hp_obs.before.last_algorithm

\* two full chunks were analysed, the last result came from Melodia, and a
\* reset after it kept the tag
C32_Witness ==
    /\ hp_obs.op = "reset"
    /\ hp.last_algorithm = "melodia"
    /\ hp_obs.before.last_algorithm = "melodia"
    /\ hp_obs.total >= 8192

(***************************************************************************)
(* Properties of the server's pitch mode and of its responses.             *)
(***************************************************************************)
\* C33: in every reachable state of the server, after any sequence of
\* pitch:start, pitch:set_mode, pitch:stream and pitch:stop messages, the
\* pitch session's mode, that of the server and that of its detector, is one
\* of auto, crepe, melodia.
C33_PitchModeValid ==
    /\ srv._pitch_mode \in PitchModes
    /\ ~srv._streaming_pitch_detector.absent
          => srv._streaming_pitch_detector.obj.mode \in PitchModes

(***************************************************************************)
(* Further properties of the formant detector.                             *)
(***************************************************************************)
\* C34: with hop_samples >= 1, after every return of process_chunk and after
\* reset no window is pending: it is not the case that buffer_pos >=
\* window_samples and samples_since_analysis >= hop_samples.  Consequently
\* pushing an empty chunk emits no window and changes neither buffer_pos nor
\* the counter.
C34_NoPendingWindow ==
    fd.hop_samples >= 1 =>
      /\ ~( /\ fd.buffer_pos >= fd.window_samples
            /\ fd.samples_since_analysis >= fd.hop_samples )
      /\ (FDCalled /\ fd_obs.n = 0) =>
            /\ fd_obs.result.none
            /\ ~fd_obs.invoked
            /\ fd_obs.window = <<>>
            /\ fd.buffer_pos = fd_obs.before.buffer_pos
            /\ fd.samples_since_analysis = fd_obs.before.samples_since_analysis

\* an empty chunk pushed at a detector whose buffer holds a whole window and
\* whose counter is one sample short of the hop
C34_Witness ==
    /\ fd.hop_samples >= 2
    /\ FDCalled
    /\ fd_obs.n = 0
    /\ fd_obs.before.buffer_pos >= fd.window_samples
    /\ fd_obs.before.samples_since_analysis = fd.hop_samples - 1
    /\ fd_obs.result.none

\* the windows evaluated since the construction or the last reset, as
\* above-threshold flags, up to the one just evaluated
FDFlags == fd_obs.flags

\* C35: voice-gate hangover.  After an evaluated window whose rms exceeds
\* the threshold, the next two evaluated windows are reported as
\* voice-detected (the backend is invoked, nothing decays) even if both are
\* below the threshold; detection turns off exactly at the third consecutive
\* below-threshold window and turns back on at the first above-threshold
\* window.
C35_GateHangover ==
    FDEmitted =>
      LET k == Len(FDFlags)
          recent == {j \in 1..k : j >= k - 2}
      IN  /\ k >= 1
          /\ (\E j \in recent : FDFlags[j]) =>
                /\ fd_obs.invoked
                /\ fd_obs.praat \in {PraatRaised, PraatUndefined, PraatMisordered}
                      => /\ fd.smoothed_formants = fd_obs.before.smoothed_formants
                         /\ fd.smoothed_bandwidths =
                               fd_obs.before.smoothed_bandwidths
          /\ (k >= 3 /\ \A j \in recent : ~FDFlags[j]) =>
                /\ ~fd_obs.invoked
                /\ ~fd_obs.result.detected
          /\ FDFlags[k] => fd_obs.invoked

\* one loud window, then three silent ones: the gate was still open on the
\* second silent window and closes on the third
C35_Witness ==
    /\ FDEmitted
    /\ FDFlags = <<TRUE, FALSE, FALSE, FALSE>>
    /\ ~fd_obs.invoked
    /\ fd_obs.before.voiced_history = <<TRUE, FALSE, FALSE>>

\* the gate reopens on the first loud window after it closed
C35_WitnessReopens ==
    /\ FDEmitted
    /\ FDFlags = <<TRUE, FALSE, FALSE, FALSE, TRUE>>
    /\ fd_obs.invoked

\* C36: in every reachable state of StreamingFormantDetector (any sequence
\* of voiced updates, unvoiced decays, backend failures and resets) all
\* smoothed formant and bandwidth values are >= 0 and the smoothed formants
\* satisfy F1 <= F2 <= F3.
C36_SmoothedOrdered ==
    /\ \A k \in FormantKeys :
          fd.smoothed_formants[k] >= 0 /\ fd.smoothed_bandwidths[k] >= 0
    /\ fd.smoothed_formants[1] <= fd.smoothed_formants[2]
    /\ fd.smoothed_formants[2] <= fd.smoothed_formants[3]

\* on the fifth window Praat hands back F1 above F2, all found and positive:
\* the ordered smoothed values of the earlier updates are held
C36_Witness ==
    /\ FDAnalysed
    /\ fd_obs.praat = PraatMisordered
    /\ fd.smoothed_formants[1] > 0
    /\ fd.smoothed_formants[1] < fd.smoothed_formants[2]
    /\ fd.smoothed_formants = fd_obs.before.smoothed_formants
    /\ Len(FDFlags) = 5

\* the backend called by the i-th call of the last process_chunk, as it is
\* after the call
HPBackendAfter(i) ==
    IF hp_obs.calls[i].backend = "crepe" THEN hp._crepe.obj ELSE hp._melodia.obj

\* C37: after every return of TorchCREPEDetector.process_chunk or
\* MelodiaDetector.process_chunk the backend's buffer holds fewer than
\* min_samples samples: torchcrepe is left with an empty buffer by each
\* inference, Melodia with the last frame_size/2 samples; a backend whose
\* model failed to load never buffers anything.
C37_BackendBuffersBounded ==
    /\ ~hp._crepe.absent =>
          /\ RunsLen(hp._crepe.obj.buffer) < hp._crepe.obj.min_samples
          /\ ~hp._crepe.obj._model_loaded => hp._crepe.obj.buffer = <<>>
    /\ ~hp._melodia.absent =>
          /\ RunsLen(hp._melodia.obj.buffer) < hp._melodia.obj.min_samples
          /\ ~hp._melodia.obj._loaded => hp._melodia.obj.buffer = <<>>
    /\ hp_obs.op = "process_chunk" =>
          \A i \in 1..Len(hp_obs.calls) :
             hp_obs.calls[i].ran =>
                RunsLen(HPBackendAfter(i).buffer) =
                   IF hp_obs.calls[i].backend = "crepe" THEN 0
                   ELSE FrameSize \div 2

\* Melodia analysed more than min_samples samples at once and kept the last
\* 1024 of them
C37_Witness ==
    /\ hp_obs.op = "process_chunk"
    /\ \E i \in 1..Len(hp_obs.calls) :
          /\ hp_obs.calls[i].backend = "melodia"
          /\ hp_obs.calls[i].ran
          /\ RunsLen(hp_obs.calls[i].seen) > 4096
    /\ RunsLen(hp._melodia.obj.buffer) = 1024

(***************************************************************************)
(* Properties of the lightweight separator.                                *)
(***************************************************************************)
RECURSIVE Flatten(_)
\* the blocks of a sequence of blocks, one after the other
Flatten(blocks) ==
    IF blocks = <<>> THEN <<>> ELSE Head(blocks) \o Flatten(Tail(blocks))

\* C38: LightweightSeparator loses and duplicates no audio: each
\* process_chunk call emits at most one block, of exactly chunk_samples
\* samples; the blocks emitted so far are, in order, the consecutive
\* non-overlapping blocks of the concatenated mono input; and the pending
\* input_buffer length equals the mono samples received minus chunk_samples
\* times the number of blocks emitted, both counted since the last reset.
C38_LightConservesAudio ==
    LET c        == ss.chunk_samples
        received == ss_obs.total - ss_obs.base
        emitted  == Flatten(ss_obs.blocks)
    IN  /\ ss_obs.op = "process_chunk" =>
              /\ ss_obs.result.none <=>
                    Len(ss_obs.before.input_buffer) + ss_obs.n < c
              /\ ~ss_obs.result.none => Len(ss_obs.result.output) = c
        /\ \A k \in 1..Len(ss_obs.blocks) : Len(ss_obs.blocks[k]) = c
        /\ emitted = [i \in 1..(c * Len(ss_obs.blocks)) |-> ss_obs.base + i]
        /\ Len(ss.input_buffer) = received - c * Len(ss_obs.blocks)
        /\ emitted \o ss.input_buffer = [i \in 1..received |-> ss_obs.base + i]

\* one array brought more than two blocks of mono samples; one block came
\* out and more than a block stays pending, and the next call emits the
\* second block
C38_Witness ==
    /\ ss_obs.op = "process_chunk"
    /\ Len(ss_obs.blocks) = 2
    /\ Len(ss_obs.before.input_buffer) > ss.chunk_samples
    /\ ss_obs.n = 0
    /\ ss.input_buffer # <<>>

\* the responses written for the request with a task id: positions in the
\* log of its result or error message
LoopResponses(id) == LoopAt("result", id) \cup LoopAt("error", id)

\* C39: every request handled by process_message produces exactly one
\* response, the handler's result, or an 'error' message if the handler
\* raised or the message type is unknown; the data messages of the request
\* are sent before its response; and active_tasks does not contain the task
\* id once the response has been sent.
C39_OneResponsePerRequest ==
    /\ \A id \in 1..loop.arrived :
          /\ Cardinality(LoopResponses(id)) =
                IF LoopAt("end", id) # {} THEN 1 ELSE 0
          /\ \A d \in LoopAt("data", id), e \in LoopResponses(id) : d < e
          /\ LoopResponses(id) # {} => id \notin srv.active_tasks
    /\ (Len(loop.log) >= 2 /\ loop.log[Len(loop.log)][1] = "end") =>
          LET last == loop.log[Len(loop.log) - 1]
          IN  last[1] = IF srv_obs.escaped \/ last[3] \notin Kinds
                        THEN "error" ELSE "result"
    /\ \A id \in srv.active_tasks : \E msg \in loop.running : msg.id = id

\* a pitch chunk produced a data message and then its result, after a
\* stream:start whose construction raised was answered by an error
C39_Witness ==
    /\ \E id \in 1..loop.arrived :
          LoopAt("data", id) # {} /\ LoopAt("result", id) # {}
    /\ \E id \in 1..loop.arrived :
          \E e \in LoopAt("error", id) : loop.log[e][3] = "stream"
    /\ srv.active_tasks = {}

\* C40: in every reachable state in which a stream kind's Active flag is
\* true, that stream's detector has been constructed; a start request whose
\* detector construction fails reports an error and leaves the session Idle.
C40_ActiveImpliesConstructed ==
    /\ \A kind \in Kinds :
          SrvActive(srv, kind) => ~SrvDetector(srv, kind).absent
    /\ (srv_obs.op = "start" /\ srv_obs.escaped) =>
          /\ loop.log[Len(loop.log) - 1][1] = "error"
          /\ ~SrvActive(srv, srv_obs.kind)

====
